---- MODULE Spec2Model ----
(***************************************************************************)
(* Elon Radar: the ingestion / retention pipeline (lib/db.ts, the cron and *)
(* manual routes) and the cached snapshot read (api/articles/route.ts).    *)
(*                                                                         *)
(* Time is one wall clock in milliseconds, shared by Date.now() and by the *)
(* database's NOW().  Every SQL statement is one atomic step; the          *)
(* statements of concurrent handlers interleave freely.                    *)
(*                                                                         *)
(* A post carries url and title.  title stands for the NOT NULL text       *)
(* columns a post is saved with (title, sentiment, company, timestamp):    *)
(* the code treats them alike, copying each into the row.                  *)
(***************************************************************************)
EXTENDS Integers, Sequences, FiniteSets, TLC

VARIABLES
    clock,              \* Date.now() / NOW(), milliseconds
    articles,           \* table articles: set of rows [id, url, title, created_at]
    articleSeq,         \* articles.id SERIAL: the next value of the sequence
    urlUnique,          \* whether constraint articles_url_unique exists
    trends,             \* table trends: sequence of rows [name, score] in insertion order
    sentiment,          \* table sentiment_overview: set of rows [id, overall, score, created_at]
    sentimentSeq,       \* sentiment_overview.id SERIAL: the next value
    pc,                 \* pc[c]: where ingestion handler c stands
    inArticles,         \* inArticles[c]: the articles argument of saveRadarData
    inTrends,           \* inTrends[c]: the trends argument
    inSentiment,        \* inSentiment[c]: the sentimentOverview argument
    idx,                \* idx[c]: index of the for-loop in progress
    cutoffTime,         \* cutoffTime[c]: cleanupOldArticles' cutoff of the call in progress
    cleaned,            \* cleaned[c]: the rows cleanupOldArticles' DELETE returned
    newArticlesCount,   \* newArticlesCount[c]
    cyclesStarted,      \* number of ingestion handlers started so far
    firstSaved,         \* history: firstSaved[u] is <<>>, or <<[id, created_at]>> as
                        \* assigned when url u was first inserted
    rpc,                \* rpc[r]: where GET /api/articles request r stands
    now,                \* now[r]: the request's Date.now()
    data,               \* data[r]: getRadarData's result under construction
    response,           \* the response most recently returned: [status, body], and
                        \* whether it was the cached one
    readsStarted,       \* number of snapshot reads issued so far
    quietSince,         \* history: quietSince[r] is the number of ingestion cycles that
                        \* had completed when r was issued, 0 if one was running
    freshest,           \* history: the latest Date.now() of the requests that have
                        \* updated the cache
    cachedResponse,     \* module-level cache slot: <<>> (null) or <<response>>
    cacheTimestamp,     \* module-level cacheTimestamp
    text,               \* the model's reply handed to parseJsonResponse: [defined, toks]
    parsed,             \* <<>> before the call of parseJsonResponse, then
                        \* <<[threw, value]>>
    posts,              \* the list handed to deduplicatePosts
    unique,             \* <<>> before the call of deduplicatePosts, then <<its result>>
    cronSecret,         \* process.env.CRON_SECRET: Null when not set
    reply,              \* reply[c]: status of the response handler c returned last,
                        \* 0 before it has returned
    outcomes,           \* outcomes[c]: <<>>, or <<what the gather calls gave>>
    raised,             \* history: raised[c] is <<>>, or <<the await of c's run that
                        \* rejected outside every inner try block>>
    lastGood,           \* history: the three tables as the last cycle that
                        \* answered success left them
    mounted,            \* page.tsx: the component Home is mounted
    refreshingRef,      \* refreshingRef.current
    nextUpdate,         \* the state nextUpdate: <<>> (null) or <<instant>>
    effectPending,      \* nextUpdate was set: the countdown effect is to run again
    countdownDue,       \* the countdown effect's setInterval: <<>> or <<next firing>>
    autoDue,            \* the auto-refresh effect's setInterval: <<>> or <<next firing>>
    timeouts,           \* the pending setTimeout(fetchArticles, 5000): their firing times
    inFlight,           \* inFlight[o]: requests of fetchArticles in flight, by what
                        \* started them
    expiredTicks,       \* history: calls of updateCountdown that found the deadline
                        \* passed since a fetch last settled (counted up to 2)
    scheduledInWindow,  \* history: setTimeout calls since a fetch last settled
    fetchCalls,         \* history: the calls of fetchArticles so far, modulo 2
    callState,          \* callState[k]: gather call k of the scheduled trigger's run:
                        \* "idle", "flight" or "settled"
    callReply,          \* callReply[k]: what call k met, once it has settled
    completion,         \* history: the calls of the run in the order they settled
    savedAt,            \* history: <<>>, or <<the Date.now() of cleanupOldArticles in
                        \* the last cycle that answered success>>
    labelled,           \* a gather call and the reply of the model to it, its posts
                        \* carrying the model's company labels
    returned            \* <<>>, or <<the posts that call returned to the handler>>

dbVars    == <<articles, articleSeq, urlUnique, trends, sentiment, sentimentSeq>>
cycleVars == <<pc, inArticles, inTrends, inSentiment, idx, cutoffTime, cleaned,
               newArticlesCount, cyclesStarted>>
readVars  == <<rpc, now, data, response, readsStarted, quietSince, freshest>>
cacheVars == <<cachedResponse, cacheTimestamp>>
pureVars  == <<text, parsed, posts, unique>>
triggerVars == <<cronSecret, reply, outcomes, raised, lastGood, savedAt>>
clientVars == <<mounted, refreshingRef, nextUpdate, effectPending, countdownDue, autoDue,
                timeouts, inFlight, expiredTicks, scheduledInWindow, fetchCalls>>
fanVars   == <<callState, callReply, completion>>
tagVars   == <<labelled, returned>>
restVars  == <<pureVars, triggerVars, clientVars, fanVars, tagVars>>
vars      == <<clock, dbVars, cycleVars, firstSaved, readVars, cacheVars, restVars>>

----------------------------------------------------------------------------
(* Program constants *)

ARTICLE_RETENTION_HOURS == 48
RetentionMs == ARTICLE_RETENTION_HOURS * 60 * 60 * 1000
SENTIMENT_KEEP == 100
CACHE_TTL == 10 * 1000
NextUpdateMs == 30 * 60 * 1000

(* page.tsx: the countdown's interval, the delay of the deferred re-fetch,  *)
(* the auto-refresh interval                                                *)
COUNTDOWN_MS == 1000
DEFER_MS == 5000
AUTO_REFRESH_MS == 30 * 60 * 1000

(* The score 0.5 of the canonical default; scores are counted in halves *)
SCORE_HALF == 1

(* Bounds of the model *)

MaxCycles == 2          \* ingestion handlers started in one behaviour
MaxPosts == 2           \* length of a post list
MaxLate == 1            \* the clock reaches the retention window and up to MaxLate ms more
MaxTrends == 2          \* length of a trend list
MaxTokens == 5          \* length of a model reply, in tokens
MaxDedup == 3           \* length of a list handed to deduplicatePosts
MaxReads == 3           \* snapshot reads issued in one behaviour
MaxWait == 2            \* the clock advances by up to MaxWait half cache lifetimes
MaxEntities == 1        \* entries of COMPANY_CONFIGS that are modelled
MaxExtraSeconds == 6    \* the page is followed for the auto-refresh interval and
                        \* MaxExtraSeconds seconds more

(* The ingestion handlers: the scheduled trigger (api/cron/update) and the    *)
(* manual fetch-and-save (api/radar); one run of each may be in progress.    *)
Cycles == {"cron", "radar"}

(* The GET /api/articles requests in flight at one time; "r1" names the one *)
(* that arrives while no other is in flight.                               *)
Requests == {"r1", "r2"}
FirstRequest == "r1"

(* A string argument that may be undefined *)
Undefined == [defined |-> FALSE, toks |-> <<>>]

(* JavaScript null / undefined, and SQL NULL *)
Null == "<null>"

(* Variant: the empty string passes *)
Falsy_NullOnly(x) == x = Null

(* !x, of a string or null / undefined *)
Falsy(x) == x = Null \/ x = ""

RECURSIVE SeqsUpTo(_, _)
SeqsUpTo(S, n) ==
    IF n = 0 THEN {<<>>}
    ELSE LET shorter == SeqsUpTo(S, n - 1)
         IN  shorter \cup {Append(s, x) : s \in {t \in shorter : Len(t) = n - 1}, x \in S}

----------------------------------------------------------------------------
(* Posts as the model returns them *)

PostPool ==
    {[url |-> "u1", title |-> "t1"], [url |-> "u1", title |-> "t2"],
     [url |-> "u2", title |-> "t1"]}

PostLists == SeqsUpTo(PostPool, MaxPosts)
Urls == {p.url : p \in PostPool}
UrlsOf(ps) == {ps[i].url : i \in 1..Len(ps)}

(* deduplicatePosts: posts.filter with a Set of the urls seen *)
RECURSIVE DedupFrom(_, _, _)
DedupFrom(ps, i, seen) ==
    IF i > Len(ps) THEN <<>>
    ELSE IF Falsy(ps[i].url) \/ ps[i].url \in seen
         THEN DedupFrom(ps, i + 1, seen)
         ELSE <<ps[i]>> \o DedupFrom(ps, i + 1, seen \cup {ps[i].url})

deduplicatePosts(ps) == DedupFrom(ps, 1, {})

----------------------------------------------------------------------------
(* parseJsonResponse.  A reply is a sequence of tokens: FENCE_JSON, three    *)
(* backticks and the word json; FENCE, three backticks; NL, a newline; a    *)
(* chunk that is a JSON text; a chunk that is not.  The chunks hold neither *)
(* backticks nor newlines.                                                  *)

Tokens == {"FENCE_JSON", "FENCE", "NL", "JSON_TEXT", "JUNK"}

(* What the JSON chunk denotes *)
ReplyValue ==
    [posts |-> <<[url |-> "u1", title |-> "t1"]>>, trends |-> <<>>,
     sentiment_overview |-> [overall |-> "positive", score |-> 2]]

(* The canonical default *)
DefaultParsed ==
    [posts |-> <<>>, trends |-> <<>>,
     sentiment_overview |-> [overall |-> "neutral", score |-> SCORE_HALF]]

(* JSON.parse: <<the value>>, or <<>> when it throws.  White space around    *)
(* the one JSON text is allowed, anything else is a syntax error.           *)
JsonParse(toks) ==
    IF SelectSeq(toks, LAMBDA t : t # "NL") = <<"JSON_TEXT">> THEN <<ReplyValue>> ELSE <<>>

(* text.match(/<opener>\n([\s\S]*?)\n<three backticks>/): <<>> for no       *)
(* match, or <<the captured group>>.  The match starts at the leftmost      *)
(* opener followed by a newline and, the group being lazy, ends at the      *)
(* first newline after it that three backticks follow; FENCE_JSON begins    *)
(* with three backticks.                                                    *)
Closers(toks, i) ==
    {j \in (i + 2)..(Len(toks) - 1) : toks[j] = "NL" /\ toks[j + 1] \in {"FENCE", "FENCE_JSON"}}

Match(toks, opener) ==
    LET starts == {i \in 1..(Len(toks) - 1) :
                      toks[i] = opener /\ toks[i + 1] = "NL" /\ Closers(toks, i) # {}}
    IN  IF starts = {} THEN <<>>
        ELSE LET i == CHOOSE x \in starts : \A y \in starts : x <= y
                 j == CHOOSE x \in Closers(toks, i) : \A y \in Closers(toks, i) : x <= y
             IN  <<SubSeq(toks, i + 2, j - 1)>>

(* Variant: the second JSON.parse is not in a try block *)
ParseRaw_Uncaught(toks) ==
    IF JsonParse(toks) # <<>>
    THEN [threw |-> FALSE, value |-> JsonParse(toks)[1]]
    ELSE [threw |-> TRUE, value |-> DefaultParsed]

(* The outer catch block: JSON.parse(text), and the default when it throws *)
ParseRaw(toks) ==
    IF JsonParse(toks) # <<>>
    THEN [threw |-> FALSE, value |-> JsonParse(toks)[1]]
    ELSE [threw |-> FALSE, value |-> DefaultParsed]

(* parseJsonResponse(text), text being [defined, toks]: what it returns, or  *)
(* that it threw                                                            *)
parseJsonResponse(t) ==
    IF ~t.defined \/ t.toks = <<>>
    THEN [threw |-> FALSE, value |-> DefaultParsed]
    ELSE LET jsonMatch == IF Match(t.toks, "FENCE_JSON") # <<>>
                          THEN Match(t.toks, "FENCE_JSON")
                          ELSE Match(t.toks, "FENCE")
             jsonStr   == IF jsonMatch # <<>> THEN jsonMatch[1] ELSE t.toks
         IN  IF JsonParse(jsonStr) # <<>>
             THEN [threw |-> FALSE, value |-> JsonParse(jsonStr)[1]]
             ELSE ParseRaw(t.toks)

----------------------------------------------------------------------------
(* The persistence layer, statement by statement *)

(* The column type REAL: a number is stored rounded to 24 significant bits, *)
(* ties to even.  Scores are whole numbers of some unit.                    *)
RECURSIVE Ulp(_)
Ulp(n) == IF n < 16777216 THEN 1 ELSE 2 * Ulp(n \div 2)

ToReal(n) ==
    LET u  == Ulp(n)
        lo == (n \div u) * u
        r  == n - lo
    IN  IF 2 * r < u THEN lo
        ELSE IF 2 * r > u THEN lo + u
        ELSE IF (lo \div u) % 2 = 0 THEN lo ELSE lo + u

(* ALTER TABLE articles ADD CONSTRAINT articles_url_unique UNIQUE (url):     *)
(* fails, and the failure is swallowed, when the constraint exists or when  *)
(* the table holds two rows of one url.                                     *)
AddUrlConstraint(rows, exists) ==
    exists \/ \A r1 \in rows, r2 \in rows : r1.url = r2.url => r1 = r2

(* Variant: the cutoff is the present instant *)
CutoffTime_Now(t) == t

(* cutoffTime: ARTICLE_RETENTION_HOURS before Date.now() *)
CutoffTime(t) == t - RetentionMs

(* Variant: the comparison turned round, the rows newer than the cutoff go *)
CleanupDeleted_Newer(rows, cutoff) == {r \in rows : r.created_at > cutoff}

(* Variant: a row exactly at the cutoff goes too *)
CleanupDeleted_Inclusive(rows, cutoff) == {r \in rows : r.created_at <= cutoff}

(* DELETE FROM articles WHERE created_at < cutoff RETURNING id *)
CleanupDeleted(rows, cutoff) == {r \in rows : r.created_at < cutoff}

(* Whether the INSERT of article a raises: a NOT NULL column is given NULL,  *)
(* or ON CONFLICT (url) finds no unique constraint to arbitrate with.        *)
InsertRaises(a, unq) == a.url = Null \/ a.title = Null \/ ~unq

(* Variant: a plain INSERT, no conflict target *)
UpsertRows_PlainInsert(rows, a, id, t) ==
    rows \cup {[id |-> id, url |-> a.url, title |-> a.title, created_at |-> t]}

(* Variant: the row of the url is replaced by a new one (delete, insert) *)
UpsertRows_Replace(rows, a, id, t) ==
    {r \in rows : r.url # a.url}
        \cup {[id |-> id, url |-> a.url, title |-> a.title, created_at |-> t]}

(* INSERT INTO articles ... ON CONFLICT (url) DO UPDATE SET title = ...:     *)
(* the table after the statement succeeded.  A row of the same url keeps    *)
(* its id and created_at and takes the new fields; otherwise a row is added *)
(* with the sequence's id and created_at = NOW().                           *)
UpsertRows(rows, a, id, t) ==
    IF \E r \in rows : r.url = a.url
    THEN {IF r.url = a.url THEN [r EXCEPT !.title = a.title] ELSE r : r \in rows}
    ELSE rows \cup {[id |-> id, url |-> a.url, title |-> a.title, created_at |-> t]}

(* INSERT INTO trends (name, score, sentiment) *)
TrendRow(t) == [name |-> t.name, score |-> ToReal(t.score)]

(* INSERT INTO sentiment_overview (overall, score, media_insights) *)
SentimentRow(s, id, t) ==
    [id |-> id, overall |-> s.overall, score |-> ToReal(s.score), created_at |-> t]

NewerThan(rows, r) == {s \in rows : s.created_at > r.created_at}

(* Variant: ORDER BY created_at ASC, the k oldest rows are kept *)
TopRecent_Oldest(rows, k) ==
    {{r \in rows : Cardinality({s \in rows : s.created_at <= r.created_at}) <= k}}

(* SELECT id FROM sentiment_overview ORDER BY created_at DESC LIMIT k: the   *)
(* sets of rows the query may return; rows of equal created_at come in any  *)
(* order.  A row is surely in when at most k rows are at least as recent,   *)
(* and may be in when fewer than k rows are strictly more recent.           *)
TopRecent(rows, k) ==
    LET sure  == {r \in rows : Cardinality({s \in rows : s.created_at >= r.created_at}) <= k}
        maybe == {r \in rows : Cardinality(NewerThan(rows, r)) < k} \ sure
        need  == (IF Cardinality(rows) < k THEN Cardinality(rows) ELSE k) - Cardinality(sure)
    IN  {sure \cup m : m \in {x \in SUBSET maybe : Cardinality(x) = need}}

----------------------------------------------------------------------------
(* What the model's analysis may return *)

(* Scores are counted in halves as well; the second is not a single-precision *)
(* number                                                                    *)
TrendPool == {[name |-> "A", score |-> 1], [name |-> "B", score |-> 2 * 16777216 + 2]}
TrendLists == {t \in SeqsUpTo(TrendPool, MaxTrends) :
    Len(t) > 0 /\ \A i \in 1..Len(t) : t[i].name = (IF i = 1 THEN "A" ELSE "B")}
OneTrend == <<[name |-> "A", score |-> 1]>>
DefaultSentiment == [overall |-> "neutral", score |-> SCORE_HALF]
SentimentPool == {DefaultSentiment, [overall |-> "positive", score |-> 2]}

----------------------------------------------------------------------------
(* The scheduled trigger's authorization and its gather calls *)

(* request.headers.get('authorization'): null, or the header's value *)
AuthHeaders == {Null, "", "s", "Bearer ", "Bearer s", "Bearer t", "bearer s", "Bearer s "}

(* process.env.CRON_SECRET *)
Secrets == {Null, "", "s"}

Bearer(secret) == "Bearer " \o secret

(* Variant: the header is not looked at *)
verifyCronSecret_Open(authHeader, secret) == TRUE

(* verifyCronSecret *)
verifyCronSecret(authHeader, secret) ==
    IF Falsy(secret) THEN TRUE ELSE authHeader = Bearer(secret)

(* A handler's response: the status and, for { error }, the message *)
Response(status, error) == [status |-> status, error |-> error]
NoReply == Response(0, <<>>)
Success == Response(200, <<>>)

(* The gather calls of one cycle, in the order their results are pushed on  *)
(* allPosts: X search per entity, news per entity, the general-news groups  *)
GENERAL_GROUPS == 2
Entities == 1..MaxEntities
CallOrder ==
    [i \in 1..(2 * MaxEntities + GENERAL_GROUPS) |->
        IF i <= MaxEntities THEN <<"x", i>>
        ELSE IF i <= 2 * MaxEntities THEN <<"news", i - MaxEntities>>
        ELSE <<"general", i - 2 * MaxEntities>>]
Calls == {CallOrder[i] : i \in DOMAIN CallOrder}

(* A JavaScript value in the place of parsed.posts: undefined, a number, or *)
(* an array                                                                 *)
JsUndefined == [type |-> "undefined", items |-> <<>>]
JsNumber == [type |-> "number", items |-> <<>>]
JsArray(items) == [type |-> "array", items |-> items]

(* What one gather call meets: generateText rejects; or it resolves with a  *)
(* text that parseJsonResponse cannot parse, which gives the default; or    *)
(* with a JSON text, whose posts member is any value.                       *)
GatherLists == {<<[url |-> "u1", title |-> "t1"]>>,
                <<[url |-> "u1", title |-> "t2"], [url |-> "u2", title |-> "t1"]>>}
CallOutcomes ==
    {[kind |-> "gateway_error", posts |-> JsUndefined],
     [kind |-> "unparseable", posts |-> JsUndefined]}
        \cup {[kind |-> "json", posts |-> v] :
                 v \in {JsUndefined, JsNumber} \cup {JsArray(l) : l \in GatherLists}}

(* parseJsonResponse(result.text).posts *)
ParsedPosts(o) ==
    IF o.kind = "unparseable" THEN JsArray(DefaultParsed.posts) ELSE o.posts

(* Variant: no try block around the call *)
fetchCompanyData_Uncaught(o) ==
    IF o.kind = "gateway_error" \/ ParsedPosts(o).type = "number"
    THEN [threw |-> TRUE, value |-> JsArray(<<>>)]
    ELSE [threw |-> FALSE,
          value |-> IF ParsedPosts(o).type = "undefined"
                    THEN JsArray(<<>>) ELSE ParsedPosts(o)]

(* fetchCompanyXData, fetchCompanyNewsData: (parsed.posts || []).map(...),   *)
(* and [] from the catch block, which a rejected call and a posts member    *)
(* without map both reach                                                   *)
fetchCompanyData(o) ==
    IF o.kind = "gateway_error" \/ ParsedPosts(o).type = "number"
    THEN [threw |-> FALSE, value |-> JsArray(<<>>)]
    ELSE [threw |-> FALSE,
          value |-> IF ParsedPosts(o).type = "undefined"
                    THEN JsArray(<<>>) ELSE ParsedPosts(o)]

(* fetchGeneralElonNewsFromGroup: parsed.posts || [], and [] from the catch  *)
(* block                                                                    *)
fetchGeneralElonNewsFromGroup(o) ==
    IF o.kind = "gateway_error" \/ ParsedPosts(o).type = "undefined"
    THEN [threw |-> FALSE, value |-> JsArray(<<>>)]
    ELSE [threw |-> FALSE, value |-> ParsedPosts(o)]

(* What a call returns to the handler.  The spread of a group's result in   *)
(* fetchGeneralElonNews throws when the result is not iterable.             *)
CallResult(call, o) ==
    IF call[1] = "general"
    THEN LET g == fetchGeneralElonNewsFromGroup(o)
         IN  IF g.value.type = "array" THEN g
             ELSE [threw |-> TRUE, value |-> JsArray(<<>>)]
    ELSE fetchCompanyData(o)

(* allPosts: the results pushed in the order of the calls *)
RECURSIVE AllPostsFrom(_, _)
AllPostsFrom(outs, i) ==
    IF i > Len(CallOrder) THEN <<>>
    ELSE CallResult(CallOrder[i], outs[CallOrder[i]]).value.items \o AllPostsFrom(outs, i + 1)

(* Variant: the results are pushed in the order the calls settled *)
RECURSIVE InOrderFrom(_, _, _)
InOrderFrom(order, outs, i) ==
    IF i > Len(order) THEN <<>>
    ELSE CallResult(order[i], outs[order[i]]).value.items \o InOrderFrom(order, outs, i + 1)

AllPosts_ByCompletion(outs) == InOrderFrom(completion, outs, 1)

AllPosts(outs) == AllPostsFrom(outs, 1)

GatherThrew(outs) == \E k \in Calls : CallResult(k, outs[k]).threw

(* COMPANY_CONFIGS[i].name *)
COMPANY_NAMES == <<"Tesla", "SpaceX", "xAI", "Neuralink", "Boring Company", "Starlink">>
ConfigName(i) == COMPANY_NAMES[i]

(* posts.map(p => ({ ...p, company: name })) *)
WithCompany(items, name) ==
    [i \in 1..Len(items) |->
        [url |-> items[i].url, title |-> items[i].title, company |-> name]]

(* The posts a gather call returns, their company labels included: an       *)
(* entity's call maps them, a general-news call returns parsed.posts as it  *)
(* is                                                                       *)
PostsOf(call, o) ==
    IF call[1] = "general"
    THEN CallResult(call, o).value.items
    ELSE WithCompany(CallResult(call, o).value.items, ConfigName(call[2]))

(* Whether INSERT INTO trends raises: name is NOT NULL *)
TrendRaises(t) == t.name = Null

----------------------------------------------------------------------------
(* The ingestion handlers: GET/POST /api/cron/update and POST /api/radar *)

Running(c) == pc[c] \notin {"idle", "done"}

(* The handler's try block is entered *)
StartHandler(c) ==
    /\ ~Running(c)
    /\ cyclesStarted < MaxCycles
    /\ cyclesStarted' = cyclesStarted + 1
    /\ pc' = [pc EXCEPT ![c] = "initdb"]
    /\ reply' = [reply EXCEPT ![c] = NoReply]
    /\ raised' = [raised EXCEPT ![c] = <<>>]
    /\ UNCHANGED <<clock, dbVars, inArticles, inTrends, inSentiment, idx, cutoffTime,
                   cleaned, newArticlesCount, readVars, cacheVars, firstSaved,
                   pureVars, cronSecret, outcomes, lastGood, savedAt, clientVars,
                   fanVars, tagVars>>

(* The trigger answers 401 before its try block *)
Unauthorized ==
    /\ ~Running("cron")
    /\ reply' = [reply EXCEPT !["cron"] = Response(401, <<"Unauthorized">>)]
    /\ raised' = [raised EXCEPT !["cron"] = <<>>]
    /\ UNCHANGED <<clock, dbVars, cycleVars, readVars, cacheVars, firstSaved,
                   pureVars, cronSecret, outcomes, lastGood, savedAt, clientVars,
                   fanVars, tagVars>>

(* GET /api/cron/update, and POST, which calls GET: a request arrives whose *)
(* authorization header is authHeader                                       *)
Trigger(authHeader) ==
    IF verifyCronSecret(authHeader, cronSecret) THEN StartHandler("cron") ELSE Unauthorized

(* POST /api/radar: a request arrives whose authorization header is         *)
(* authHeader.  The handler reads the body and never the headers.           *)
ManualFetch(authHeader) == StartHandler("radar")

(* A gather call that has not settled has met nothing yet *)
Pending == [kind |-> "pending", posts |-> JsUndefined]

(* The handler returns: the promises of its gather calls are gone.  The     *)
(* manual route makes one call, which is part of its step Gathered.         *)
ForgetCalls(c) ==
    IF c = "cron"
    THEN /\ callState' = [k \in Calls |-> "idle"]
         /\ callReply' = [k \in Calls |-> Pending]
         /\ completion' = <<>>
    ELSE UNCHANGED fanVars

(* The handler's catch block: the error is answered as { error } with       *)
(* status 500; the handler's locals are gone.  stage names the await that   *)
(* rejected, and stands for the error's message.                            *)
Caught(c, stage) ==
    /\ reply' = [reply EXCEPT ![c] = Response(500, <<stage>>)]
    /\ raised' = [raised EXCEPT ![c] = <<stage>>]
    /\ pc' = [pc EXCEPT ![c] = "done"]
    /\ outcomes' = [outcomes EXCEPT ![c] = <<>>]
    /\ inArticles' = [inArticles EXCEPT ![c] = <<>>]
    /\ inTrends' = [inTrends EXCEPT ![c] = <<>>]
    /\ inSentiment' = [inSentiment EXCEPT ![c] = DefaultSentiment]
    /\ idx' = [idx EXCEPT ![c] = 1]
    /\ cutoffTime' = [cutoffTime EXCEPT ![c] = 0]
    /\ cleaned' = [cleaned EXCEPT ![c] = {}]
    /\ newArticlesCount' = [newArticlesCount EXCEPT ![c] = 0]
    /\ ForgetCalls(c)
    /\ UNCHANGED <<clock, dbVars, cyclesStarted, readVars, cacheVars, firstSaved,
                   pureVars, cronSecret, lastGood, savedAt, clientVars, tagVars>>

(* Variant: the rejection is swallowed and the next statement runs *)
StatementFails_Swallowed(c) ==
    /\ pc[c] \in {"cleanup", "trendsDelete", "sentInsert"}
    /\ raised' = [raised EXCEPT ![c] = <<pc[c]>>]
    /\ pc' = [pc EXCEPT ![c] =
           IF pc[c] = "cleanup" THEN "trendsDelete"
           ELSE IF pc[c] = "trendsDelete" THEN "sentInsert" ELSE "sentTrim"]
    /\ UNCHANGED <<clock, dbVars, inArticles, inTrends, inSentiment, idx, cutoffTime,
                   cleaned, newArticlesCount, cyclesStarted, readVars, cacheVars,
                   firstSaved, pureVars, cronSecret, reply, outcomes, lastGood,
                   savedAt, clientVars, fanVars, tagVars>>

(* An await that no inner try block guards rejects (the database cannot be  *)
(* reached, a statement fails): initializeDatabase, the DELETE of           *)
(* cleanupOldArticles, DELETE FROM trends, an INSERT INTO trends, the       *)
(* sentiment INSERT, the sentiment DELETE.  The statement has no effect.    *)
Unguarded == {"initdb", "cleanup", "trendsDelete", "trendsInsert", "sentInsert", "sentTrim"}

StatementFails(c) ==
    /\ pc[c] \in Unguarded
    /\ Caught(c, pc[c])

(* The gather calls have all returned (Promise.all) *)
CallsReturn(c, outs) ==
    /\ pc[c] = "gather"
    /\ outcomes[c] = <<>>
    /\ outcomes' = [outcomes EXCEPT ![c] = <<outs>>]
    /\ UNCHANGED <<clock, dbVars, cycleVars, readVars, cacheVars, firstSaved,
                   pureVars, cronSecret, reply, raised, lastGood, savedAt,
                   clientVars, fanVars, tagVars>>

(* The gather calls of the scheduled trigger, one by one.  The handler      *)
(* starts them in three waves, each awaited with Promise.all before the     *)
(* next is started: X search per entity, news per entity, the general-news  *)
(* groups.                                                                  *)
WAVES == 3
WaveOf(call) == IF call[1] = "x" THEN 1 ELSE IF call[1] = "news" THEN 2 ELSE WAVES
WaveCalls(w) == {k \in Calls : WaveOf(k) = w}

(* COMPANY_CONFIGS.map(...), and the two calls of fetchGeneralElonNews: the *)
(* calls of wave w are started, each running up to its await of             *)
(* generateText                                                             *)
StartWave(w) ==
    /\ pc["cron"] = "gather"
    /\ outcomes["cron"] = <<>>
    /\ \A k \in WaveCalls(w) : callState[k] = "idle"
    /\ \A k \in Calls : WaveOf(k) < w => callState[k] = "settled"
    /\ callState' = [k \in Calls |-> IF WaveOf(k) = w THEN "flight" ELSE callState[k]]
    /\ UNCHANGED <<clock, dbVars, cycleVars, firstSaved, readVars, cacheVars, pureVars,
                   triggerVars, clientVars, callReply, completion, tagVars>>

(* generateText of call k settles, meeting o; the call returns its posts *)
CallSettles(k, o) ==
    /\ callState[k] = "flight"
    /\ callState' = [callState EXCEPT ![k] = "settled"]
    /\ callReply' = [callReply EXCEPT ![k] = o]
    /\ completion' = Append(completion, k)
    /\ UNCHANGED <<clock, dbVars, cycleVars, firstSaved, readVars, cacheVars, pureVars,
                   triggerVars, clientVars, tagVars>>

(* Variant: fetchGeneralElonNews is not awaited *)
FanJoin_Early ==
    /\ \A k \in Calls : WaveOf(k) < WAVES => callState[k] = "settled"
    /\ \A k \in WaveCalls(WAVES) : callState[k] # "idle"
    /\ CallsReturn("cron", callReply)

(* The last wave has settled: the handler goes on to deduplicatePosts and   *)
(* calls analyzeTrendsAndSentiment, which starts the analysis call          *)
FanJoin ==
    /\ \A k \in Calls : callState[k] = "settled"
    /\ CallsReturn("cron", callReply)

(* await initializeDatabase() *)
InitializeDatabase(c) ==
    /\ pc[c] = "initdb"
    /\ urlUnique' = AddUrlConstraint(articles, urlUnique)
    /\ pc' = [pc EXCEPT ![c] = "gather"]
    /\ UNCHANGED <<clock, articles, articleSeq, trends, sentiment, sentimentSeq,
                   inArticles, inTrends, inSentiment, idx, cutoffTime, cleaned,
                   newArticlesCount, cyclesStarted, readVars, cacheVars, restVars, firstSaved>>

(* The model calls have returned; saveRadarData is called with what they    *)
(* gave.  The cron route saves deduplicatePosts(allPosts), the manual route *)
(* saves the parsed posts as they are.                                      *)
Gathered(c, collected, tr, so) ==
    /\ pc[c] = "gather"
    /\ inArticles' = [inArticles EXCEPT ![c] =
           IF c = "cron" THEN deduplicatePosts(collected) ELSE collected]
    /\ inTrends' = [inTrends EXCEPT ![c] = tr]
    /\ inSentiment' = [inSentiment EXCEPT ![c] = so]
    /\ cleaned' = [cleaned EXCEPT ![c] = {}]
    /\ newArticlesCount' = [newArticlesCount EXCEPT ![c] = 0]
    /\ idx' = [idx EXCEPT ![c] = 1]
    /\ pc' = [pc EXCEPT ![c] = "cleanup"]
    /\ UNCHANGED <<clock, dbVars, cutoffTime, cyclesStarted, readVars, cacheVars,
                   restVars, firstSaved>>

(* The scheduled trigger after Promise.all: a rejection of                  *)
(* fetchGeneralElonNews reaches the handler's catch block; otherwise the    *)
(* posts are deduplicated, the analysis returns tr and so, and              *)
(* saveRadarData is called                                                  *)
Joined(c, tr, so) ==
    /\ pc[c] = "gather"
    /\ outcomes[c] # <<>>
    /\ IF GatherThrew(outcomes[c][1])
       THEN Caught(c, "gather")
       ELSE Gathered(c, AllPosts(outcomes[c][1]), tr, so)

(* cleanupOldArticles: the cutoff from Date.now(), and the DELETE *)
CleanupOldArticles(c) ==
    /\ pc[c] = "cleanup"
    /\ LET gone == CleanupDeleted(articles, CutoffTime(clock))
       IN  /\ articles' = articles \ gone
           /\ cleaned' = [cleaned EXCEPT ![c] = gone]
    /\ cutoffTime' = [cutoffTime EXCEPT ![c] = CutoffTime(clock)]
    /\ pc' = [pc EXCEPT ![c] = IF Len(inArticles[c]) = 0 THEN "trendsDelete" ELSE "upsert"]
    /\ UNCHANGED <<clock, articleSeq, urlUnique, trends, sentiment, sentimentSeq,
                   inArticles, inTrends, inSentiment, idx, newArticlesCount,
                   cyclesStarted, readVars, cacheVars, restVars, firstSaved>>

(* Variant: newArticlesCount++ stands after the try block *)
UpsertArticle_CountsAll(c) ==
    /\ pc[c] = "upsert"
    /\ LET a == inArticles[c][idx[c]]
       IN  /\ articles' = IF InsertRaises(a, urlUnique) THEN articles
                          ELSE UpsertRows(articles, a, articleSeq, clock)
           /\ articleSeq' = IF InsertRaises(a, urlUnique) /\ ~urlUnique
                            THEN articleSeq ELSE articleSeq + 1
           /\ firstSaved' = IF ~InsertRaises(a, urlUnique) /\ firstSaved[a.url] = <<>>
                            THEN [firstSaved EXCEPT ![a.url] =
                                     <<[id |-> articleSeq, created_at |-> clock]>>]
                            ELSE firstSaved
    /\ newArticlesCount' = [newArticlesCount EXCEPT ![c] = @ + 1]
    /\ idx' = [idx EXCEPT ![c] = IF @ = Len(inArticles[c]) THEN 1 ELSE @ + 1]
    /\ pc' = [pc EXCEPT ![c] = IF idx[c] = Len(inArticles[c]) THEN "trendsDelete" ELSE "upsert"]
    /\ UNCHANGED <<clock, urlUnique, trends, sentiment, sentimentSeq, inArticles,
                   inTrends, inSentiment, cutoffTime, cleaned, cyclesStarted,
                   readVars, cacheVars, restVars>>

(* One turn of the for-loop over articles: the upsert, its error caught *)
UpsertArticle(c) ==
    /\ pc[c] = "upsert"
    /\ LET a == inArticles[c][idx[c]]
       IN  IF InsertRaises(a, urlUnique)
           THEN /\ articles' = articles
                /\ articleSeq' = IF urlUnique THEN articleSeq + 1 ELSE articleSeq
                /\ newArticlesCount' = newArticlesCount
                /\ firstSaved' = firstSaved
           ELSE /\ articles' = UpsertRows(articles, a, articleSeq, clock)
                /\ articleSeq' = articleSeq + 1
                /\ newArticlesCount' = [newArticlesCount EXCEPT ![c] = @ + 1]
                /\ firstSaved' = IF firstSaved[a.url] = <<>>
                                 THEN [firstSaved EXCEPT ![a.url] =
                                          <<[id |-> articleSeq, created_at |-> clock]>>]
                                 ELSE firstSaved
    /\ idx' = [idx EXCEPT ![c] = IF @ = Len(inArticles[c]) THEN 1 ELSE @ + 1]
    /\ pc' = [pc EXCEPT ![c] = IF idx[c] = Len(inArticles[c]) THEN "trendsDelete" ELSE "upsert"]
    /\ UNCHANGED <<clock, urlUnique, trends, sentiment, sentimentSeq, inArticles,
                   inTrends, inSentiment, cutoffTime, cleaned, cyclesStarted,
                   readVars, cacheVars, restVars>>

(* Variant: the trends of earlier cycles are left in the table *)
DeleteTrends_Keep(c) ==
    /\ pc[c] = "trendsDelete"
    /\ trends' = trends
    /\ pc' = [pc EXCEPT ![c] = IF Len(inTrends[c]) = 0 THEN "sentInsert" ELSE "trendsInsert"]
    /\ UNCHANGED <<clock, articles, articleSeq, urlUnique, sentiment, sentimentSeq,
                   inArticles, inTrends, inSentiment, idx, cutoffTime, cleaned,
                   newArticlesCount, cyclesStarted, readVars, cacheVars, restVars, firstSaved>>

(* DELETE FROM trends *)
DeleteTrends(c) ==
    /\ pc[c] = "trendsDelete"
    /\ trends' = <<>>
    /\ pc' = [pc EXCEPT ![c] = IF Len(inTrends[c]) = 0 THEN "sentInsert" ELSE "trendsInsert"]
    /\ UNCHANGED <<clock, articles, articleSeq, urlUnique, sentiment, sentimentSeq,
                   inArticles, inTrends, inSentiment, idx, cutoffTime, cleaned,
                   newArticlesCount, cyclesStarted, readVars, cacheVars, restVars, firstSaved>>

(* One turn of the for-loop over trends *)
InsertTrend(c) ==
    /\ pc[c] = "trendsInsert"
    /\ ~TrendRaises(inTrends[c][idx[c]])
    /\ trends' = Append(trends, TrendRow(inTrends[c][idx[c]]))
    /\ idx' = [idx EXCEPT ![c] = IF @ = Len(inTrends[c]) THEN 1 ELSE @ + 1]
    /\ pc' = [pc EXCEPT ![c] = IF idx[c] = Len(inTrends[c]) THEN "sentInsert" ELSE "trendsInsert"]
    /\ UNCHANGED <<clock, articles, articleSeq, urlUnique, sentiment, sentimentSeq,
                   inArticles, inTrends, inSentiment, cutoffTime, cleaned,
                   newArticlesCount, cyclesStarted, readVars, cacheVars, restVars, firstSaved>>

(* One turn of the for-loop over trends: the INSERT raises *)
InsertTrendRaises(c) ==
    /\ pc[c] = "trendsInsert"
    /\ TrendRaises(inTrends[c][idx[c]])
    /\ Caught(c, "trendsInsert")

(* INSERT INTO sentiment_overview *)
InsertSentiment(c) ==
    /\ pc[c] = "sentInsert"
    /\ sentiment' = sentiment \cup {SentimentRow(inSentiment[c], sentimentSeq, clock)}
    /\ sentimentSeq' = sentimentSeq + 1
    /\ pc' = [pc EXCEPT ![c] = "sentTrim"]
    /\ UNCHANGED <<clock, articles, articleSeq, urlUnique, trends, inArticles,
                   inTrends, inSentiment, idx, cutoffTime, cleaned, newArticlesCount,
                   cyclesStarted, readVars, cacheVars, restVars, firstSaved>>

(* DELETE FROM sentiment_overview WHERE id NOT IN (... LIMIT 100); return,  *)
(* and the handler answers success                                          *)
TrimSentiment(c) ==
    /\ pc[c] = "sentTrim"
    /\ \E keep \in TopRecent(sentiment, SENTIMENT_KEEP) : sentiment' = keep
    /\ pc' = [pc EXCEPT ![c] = "done"]
    /\ inArticles' = [inArticles EXCEPT ![c] = <<>>]
    /\ inTrends' = [inTrends EXCEPT ![c] = <<>>]
    /\ inSentiment' = [inSentiment EXCEPT ![c] = DefaultSentiment]
    /\ cutoffTime' = [cutoffTime EXCEPT ![c] = 0]
    /\ cleaned' = [cleaned EXCEPT ![c] = {}]
    /\ newArticlesCount' = [newArticlesCount EXCEPT ![c] = 0]
    /\ reply' = [reply EXCEPT ![c] = Success]
    /\ outcomes' = [outcomes EXCEPT ![c] = <<>>]
    /\ lastGood' = <<articles, trends, sentiment'>>
    /\ savedAt' = <<cutoffTime[c] + RetentionMs>>
    /\ ForgetCalls(c)
    /\ UNCHANGED <<clock, articles, articleSeq, urlUnique, trends, sentimentSeq,
                   idx, cyclesStarted, readVars, cacheVars, firstSaved,
                   pureVars, cronSecret, raised, clientVars, tagVars>>

(* Time passes: the clock moves on to instant t *)
Tick(t) ==
    /\ t > clock
    /\ clock' = t
    /\ UNCHANGED <<dbVars, cycleVars, firstSaved, readVars, cacheVars, restVars>>

(* A request's locals before they are assigned *)
EmptyData == [posts |-> <<>>, trends |-> <<>>, sentiment_overview |-> DefaultSentiment]
NoResponse == [status |-> 0, body |-> <<>>, cached |-> FALSE]

----------------------------------------------------------------------------
(* The snapshot read: GET /api/articles, getRadarData, getLastUpdateTime *)

(* The orders in which ORDER BY may return the rows: the permutations of the *)
(* rows that descend on the key, rows of equal key in any order.            *)
Orders(n) == {p \in [1..n -> 1..n] : \A i \in 1..n, j \in 1..n : p[i] = p[j] => i = j}

ByScoreDesc(rows) ==
    {[i \in 1..Len(rows) |-> rows[p[i]]] : p \in
        {q \in Orders(Len(rows)) :
            \A i \in 1..Len(rows), j \in 1..Len(rows) :
                i < j => rows[q[i]].score >= rows[q[j]].score}}

ByCreatedDesc(rows) ==
    {s \in [1..Cardinality(rows) -> rows] :
        /\ \A i \in 1..Cardinality(rows), j \in 1..Cardinality(rows) :
              s[i] = s[j] => i = j
        /\ \A i \in 1..Cardinality(rows), j \in 1..Cardinality(rows) :
              i < j => s[i].created_at >= s[j].created_at}

(* rows.map(row => ({title, url, ...})) *)
PostOf(row) == [url |-> row.url, title |-> row.title]
TrendOf(row) == [name |-> row.name, score |-> row.score]

(* SELECT * FROM sentiment_overview ORDER BY created_at DESC LIMIT 1, and   *)
(* the default when the table is empty                                      *)
LatestSentiment(rows) ==
    IF rows = {}
    THEN {DefaultSentiment}
    ELSE {[overall |-> r.overall, score |-> r.score] :
            r \in {x \in rows : \A y \in rows : x.created_at >= y.created_at}}

(* getLastUpdateTime: SELECT created_at FROM articles ORDER BY created_at    *)
(* DESC LIMIT 1: <<>> for null, on an empty table, or <<the instant>>        *)
getLastUpdateTime(rows) ==
    IF rows = {} THEN <<>>
    ELSE <<CHOOSE t \in {r.created_at : r \in rows} : \A r \in rows : t >= r.created_at>>

(* The response object.  An instant and its ISO string determine each other *)
(* at the clock's precision, so lastUpdate and nextUpdate are kept as       *)
(* instants, <<>> for null.                                                 *)
BuildResponse(d, lastUpdate) ==
    [data |-> d,
     lastUpdate |-> lastUpdate,
     nextUpdate |-> IF lastUpdate = <<>> THEN <<>> ELSE <<lastUpdate[1] + NextUpdateMs>>]

(* Variant: the cached response still serves at exactly CACHE_TTL *)
CacheValid_Inclusive(cached, stamp, t) == cached # <<>> /\ t - stamp <= CACHE_TTL

(* cachedResponse && (now - cacheTimestamp) < CACHE_TTL *)
CacheValid(cached, stamp, t) == cached # <<>> /\ t - stamp < CACHE_TTL

Querying == {"articles", "trends", "sentiment", "lastUpdate"}

QuietCycles ==
    IF \E c \in Cycles : Running(c) THEN 0 ELSE cyclesStarted

(* GET is entered: now = Date.now(), and the cached response is returned if  *)
(* it is valid                                                              *)
GetStart(r) ==
    /\ rpc[r] = "idle"
    /\ r = FirstRequest \/ rpc[FirstRequest] # "idle"
    /\ readsStarted < MaxReads
    /\ readsStarted' = readsStarted + 1
    /\ IF CacheValid(cachedResponse, cacheTimestamp, clock)
       THEN /\ response' = [status |-> 200, body |-> cachedResponse, cached |-> TRUE]
            /\ UNCHANGED <<rpc, now, quietSince>>
       ELSE /\ rpc' = [rpc EXCEPT ![r] = "articles"]
            /\ now' = [now EXCEPT ![r] = clock]
            /\ quietSince' = [quietSince EXCEPT ![r] = QuietCycles]
            /\ UNCHANGED response
    /\ UNCHANGED <<clock, dbVars, cycleVars, firstSaved, data, freshest, cacheVars, restVars>>

(* getRadarData: SELECT * FROM articles ORDER BY created_at DESC *)
QueryArticles(r) ==
    /\ rpc[r] = "articles"
    /\ \E s \in ByCreatedDesc(articles) :
          data' = [data EXCEPT ![r].posts = [i \in 1..Len(s) |-> PostOf(s[i])]]
    /\ rpc' = [rpc EXCEPT ![r] = "trends"]
    /\ UNCHANGED <<clock, dbVars, cycleVars, firstSaved, now, response, readsStarted,
                   quietSince, freshest, cacheVars, restVars>>

(* getRadarData: SELECT * FROM trends ORDER BY score DESC *)
QueryTrends(r) ==
    /\ rpc[r] = "trends"
    /\ \E s \in ByScoreDesc(trends) :
          data' = [data EXCEPT ![r].trends = [i \in 1..Len(s) |-> TrendOf(s[i])]]
    /\ rpc' = [rpc EXCEPT ![r] = "sentiment"]
    /\ UNCHANGED <<clock, dbVars, cycleVars, firstSaved, now, response, readsStarted,
                   quietSince, freshest, cacheVars, restVars>>

(* getRadarData: the latest sentiment_overview row *)
QuerySentiment(r) ==
    /\ rpc[r] = "sentiment"
    /\ \E so \in LatestSentiment(sentiment) :
          data' = [data EXCEPT ![r].sentiment_overview = so]
    /\ rpc' = [rpc EXCEPT ![r] = "lastUpdate"]
    /\ UNCHANGED <<clock, dbVars, cycleVars, firstSaved, now, response, readsStarted,
                   quietSince, freshest, cacheVars, restVars>>

(* The request returns: its locals are gone *)
Returned(r) ==
    /\ rpc' = [rpc EXCEPT ![r] = "idle"]
    /\ now' = [now EXCEPT ![r] = 0]
    /\ data' = [data EXCEPT ![r] = EmptyData]
    /\ quietSince' = [quietSince EXCEPT ![r] = 0]

(* getLastUpdateTime, the response built, the cache updated, the response    *)
(* returned                                                                 *)
Respond(r) ==
    /\ rpc[r] = "lastUpdate"
    /\ LET resp == BuildResponse(data[r], getLastUpdateTime(articles))
       IN  /\ response' = [status |-> 200, body |-> <<resp>>, cached |-> FALSE]
           /\ cachedResponse' = <<resp>>
           /\ cacheTimestamp' = now[r]
    /\ freshest' = IF now[r] > freshest THEN now[r] ELSE freshest
    /\ Returned(r)
    /\ UNCHANGED <<clock, dbVars, cycleVars, firstSaved, readsStarted, restVars>>

(* A query throws: the catch answers 500, the cache is left as it is *)
GetFails(r) ==
    /\ rpc[r] \in Querying
    /\ response' = [status |-> 500, body |-> <<>>, cached |-> FALSE]
    /\ Returned(r)
    /\ UNCHANGED <<clock, dbVars, cycleVars, firstSaved, readsStarted, freshest,
                   cacheVars, restVars>>

GetStep(r) ==
    \/ QueryArticles(r)
    \/ QueryTrends(r)
    \/ QuerySentiment(r)
    \/ Respond(r)
    \/ GetFails(r)

----------------------------------------------------------------------------
(* The dashboard page: Home of page.tsx, its effects, timers and fetches.   *)
(* Timers fire when they are due; a request settles at any time.            *)

(* What started a request of fetchArticles *)
Origins == {"initial", "auto", "deferred"}

(* nextUpdate of a response of GET /api/articles: null, or an instant *)
NextUpdates == {<<>>, <<0>>, <<3 * COUNTDOWN_MS>>}

(* How a request settles: it fails (the fetch rejects, or !res.ok), or it   *)
(* succeeds with a response                                                 *)
Settlements == {[ok |-> FALSE, nextUpdate |-> <<>>]}
                  \cup {[ok |-> TRUE, nextUpdate |-> n] : n \in NextUpdates}

CountUp(n) == IF n < 2 THEN n + 1 ELSE n

(* Variant: refreshingRef is not consulted *)
updateCountdown_Unguarded(deadline) ==
    IF deadline - clock <= 0
    THEN /\ expiredTicks' = CountUp(expiredTicks)
         /\ refreshingRef' = TRUE
         /\ timeouts' = Append(timeouts, clock + DEFER_MS)
         /\ scheduledInWindow' = CountUp(scheduledInWindow)
    ELSE UNCHANGED <<refreshingRef, timeouts, expiredTicks, scheduledInWindow>>

(* updateCountdown, of the effect that captured nextUpdate = deadline: past *)
(* the deadline a re-fetch is scheduled unless refreshingRef is set         *)
updateCountdown(deadline) ==
    IF deadline - clock <= 0
    THEN /\ expiredTicks' = CountUp(expiredTicks)
         /\ IF ~refreshingRef
            THEN /\ refreshingRef' = TRUE
                 /\ timeouts' = Append(timeouts, clock + DEFER_MS)
                 /\ scheduledInWindow' = CountUp(scheduledInWindow)
            ELSE UNCHANGED <<refreshingRef, timeouts, scheduledInWindow>>
    ELSE UNCHANGED <<refreshingRef, timeouts, expiredTicks, scheduledInWindow>>

serverVars == <<dbVars, cycleVars, firstSaved, readVars, cacheVars, pureVars, triggerVars,
                fanVars, tagVars>>

(* The countdown effect's interval fires *)
CountdownTick ==
    /\ mounted
    /\ countdownDue # <<>>
    /\ countdownDue[1].due = clock
    /\ updateCountdown(countdownDue[1].deadline)
    /\ countdownDue' = <<[countdownDue[1] EXCEPT !.due = clock + COUNTDOWN_MS]>>
    /\ UNCHANGED <<clock, serverVars, mounted, nextUpdate, effectPending, autoDue, inFlight,
                   fetchCalls>>

(* nextUpdate was set: the countdown effect is cleaned up (clearInterval)   *)
(* and runs again: updateCountdown(), setInterval                           *)
CountdownEffect ==
    /\ mounted
    /\ effectPending
    /\ effectPending' = FALSE
    /\ updateCountdown(nextUpdate[1])
    /\ countdownDue' = <<[due |-> clock + COUNTDOWN_MS, deadline |-> nextUpdate[1]]>>
    /\ UNCHANGED <<clock, serverVars, mounted, nextUpdate, autoDue, inFlight, fetchCalls>>

(* The auto-refresh effect's interval fires: fetchArticles() *)
AutoRefresh ==
    /\ mounted
    /\ autoDue = <<clock>>
    /\ autoDue' = <<clock + AUTO_REFRESH_MS>>
    /\ inFlight' = [inFlight EXCEPT !["auto"] = @ + 1]
    /\ fetchCalls' = (fetchCalls + 1) % 2
    /\ UNCHANGED <<clock, serverVars, mounted, refreshingRef, nextUpdate, effectPending,
                   countdownDue, timeouts, expiredTicks, scheduledInWindow>>

(* A deferred setTimeout fires: fetchArticles() *)
TimeoutFires ==
    /\ timeouts # <<>>
    /\ Head(timeouts) = clock
    /\ timeouts' = Tail(timeouts)
    /\ inFlight' = [inFlight EXCEPT !["deferred"] = @ + 1]
    /\ fetchCalls' = (fetchCalls + 1) % 2
    /\ UNCHANGED <<clock, serverVars, mounted, refreshingRef, nextUpdate, effectPending,
                   countdownDue, autoDue, expiredTicks, scheduledInWindow>>

(* Variant: fetchArticles has no finally block *)
FetchSettles_KeepsFlag(o, result) ==
    /\ inFlight[o] > 0
    /\ inFlight' = [inFlight EXCEPT ![o] = @ - 1]
    /\ IF result.ok /\ result.nextUpdate # <<>> /\ mounted
       THEN nextUpdate' = result.nextUpdate /\ effectPending' = TRUE
       ELSE UNCHANGED <<nextUpdate, effectPending>>
    /\ expiredTicks' = 0
    /\ scheduledInWindow' = 0
    /\ UNCHANGED <<clock, serverVars, mounted, refreshingRef, countdownDue, autoDue, timeouts,
                   fetchCalls>>

(* A request of fetchArticles settles: on success with a nextUpdate the     *)
(* state is set, to a new Date object, which an unmounted component         *)
(* ignores; the finally block clears refreshingRef                          *)
FetchSettles(o, result) ==
    /\ inFlight[o] > 0
    /\ inFlight' = [inFlight EXCEPT ![o] = @ - 1]
    /\ IF result.ok /\ result.nextUpdate # <<>> /\ mounted
       THEN nextUpdate' = result.nextUpdate /\ effectPending' = TRUE
       ELSE UNCHANGED <<nextUpdate, effectPending>>
    /\ refreshingRef' = FALSE
    /\ expiredTicks' = 0
    /\ scheduledInWindow' = 0
    /\ UNCHANGED <<clock, serverVars, mounted, countdownDue, autoDue, timeouts, fetchCalls>>

(* The component is torn down: the effects' cleanups clear the two intervals *)
Unmount ==
    /\ mounted
    /\ mounted' = FALSE
    /\ countdownDue' = <<>>
    /\ autoDue' = <<>>
    /\ effectPending' = FALSE
    /\ UNCHANGED <<clock, serverVars, refreshingRef, nextUpdate, timeouts, inFlight,
                   expiredTicks, scheduledInWindow, fetchCalls>>

(* The firing times of the pending timers *)
TimersDue ==
    {countdownDue[i].due : i \in DOMAIN countdownDue}
        \cup {autoDue[i] : i \in DOMAIN autoDue}
        \cup {timeouts[i] : i \in DOMAIN timeouts}

(* Time passes on the page, up to the next firing of a timer; a timer that  *)
(* is due fires, and a pending effect runs, before time passes              *)
ClientTimePasses ==
    /\ ~effectPending
    /\ TimersDue # {}
    /\ \A t \in TimersDue : t > clock
    /\ \E t \in TimersDue :
          /\ \A u \in TimersDue : t <= u
          /\ t <= AUTO_REFRESH_MS + MaxExtraSeconds * COUNTDOWN_MS
          /\ clock' = t
    /\ UNCHANGED <<serverVars, clientVars>>

----------------------------------------------------------------------------
(* Initial state: the database is empty, nothing runs *)

InitDb ==
    /\ clock = 0
    /\ articles = {}
    /\ articleSeq = 1
    /\ urlUnique = FALSE
    /\ trends = <<>>
    /\ sentiment = {}
    /\ sentimentSeq = 1

InitCycles ==
    /\ pc = [c \in Cycles |-> "idle"]
    /\ inArticles = [c \in Cycles |-> <<>>]
    /\ inTrends = [c \in Cycles |-> <<>>]
    /\ inSentiment = [c \in Cycles |-> DefaultSentiment]
    /\ idx = [c \in Cycles |-> 1]
    /\ cutoffTime = [c \in Cycles |-> 0]
    /\ cleaned = [c \in Cycles |-> {}]
    /\ newArticlesCount = [c \in Cycles |-> 0]
    /\ cyclesStarted = 0
    /\ firstSaved = [u \in Urls |-> <<>>]

InitReads ==
    /\ rpc = [r \in Requests |-> "idle"]
    /\ now = [r \in Requests |-> 0]
    /\ data = [r \in Requests |-> EmptyData]
    /\ response = NoResponse
    /\ readsStarted = 0
    /\ quietSince = [r \in Requests |-> 0]
    /\ freshest = 0
    /\ cachedResponse = <<>>
    /\ cacheTimestamp = 0

InitPure ==
    /\ text = Undefined
    /\ parsed = <<>>
    /\ posts = <<>>
    /\ unique = <<>>

(* No trigger request has been answered; CRON_SECRET is as configured *)
InitHandlers ==
    /\ reply = [c \in Cycles |-> NoReply]
    /\ outcomes = [c \in Cycles |-> <<>>]
    /\ raised = [c \in Cycles |-> <<>>]
    /\ lastGood = <<{}, <<>>, {}>>
    /\ savedAt = <<>>
    /\ callState = [k \in Calls |-> "idle"]
    /\ callReply = [k \in Calls |-> Pending]
    /\ completion = <<>>

(* No gather call is looked at on its own *)
NoTag ==
    /\ labelled = [call |-> CallOrder[1], reply |-> Pending]
    /\ returned = <<>>

(* The endpoint is open: no CRON_SECRET *)
InitTrigger == cronSecret = Null /\ InitHandlers /\ NoTag

(* No page is open *)
NoClient ==
    /\ mounted = FALSE
    /\ refreshingRef = FALSE
    /\ nextUpdate = <<>>
    /\ effectPending = FALSE
    /\ countdownDue = <<>>
    /\ autoDue = <<>>
    /\ timeouts = <<>>
    /\ inFlight = [o \in Origins |-> 0]
    /\ fetchCalls = 0
    /\ expiredTicks = 0
    /\ scheduledInWindow = 0

(* The instants the clock visits: exactly the retention window after the     *)
(* start, and the milliseconds that follow                                  *)
RetentionInstants == {RetentionMs + k : k \in 0..MaxLate}

Init == InitDb /\ InitCycles /\ InitReads /\ InitPure /\ InitTrigger /\ NoClient

SaveStep(c) ==
    \/ CleanupOldArticles(c)
    \/ UpsertArticle(c)
    \/ DeleteTrends(c)
    \/ InsertTrend(c)
    \/ InsertSentiment(c)
    \/ TrimSentiment(c)

(* The handler is entered while no other ingestion handler runs *)
StartAlone(c) == (\A o \in Cycles : ~Running(o)) /\ StartHandler(c)

(* Spec: ingestion cycles one after the other (the scheduler's contract),    *)
(* from either handler, over the retention window.                          *)
Next ==
    \/ \E c \in Cycles : StartAlone(c)
    \/ \E c \in Cycles : InitializeDatabase(c)
    \/ \E c \in Cycles, ps \in PostLists : Gathered(c, ps, OneTrend, DefaultSentiment)
    \/ \E c \in Cycles : SaveStep(c)
    \/ \E t \in RetentionInstants : Tick(t)

Spec == Init /\ [][Next]_vars

(* SpecOverlap: a scheduled and a manual cycle whose statements interleave,  *)
(* both saving posts of one url.                                            *)
OverlapLists == SeqsUpTo({p \in PostPool : p.url = "u1"}, MaxPosts)

NextOverlap ==
    \/ \E c \in Cycles : StartHandler(c)
    \/ \E c \in Cycles : InitializeDatabase(c)
    \/ \E c \in Cycles, ps \in OverlapLists : Gathered(c, ps, OneTrend, DefaultSentiment)
    \/ \E c \in Cycles : SaveStep(c)
    \/ \E t \in RetentionInstants : Tick(t)

SpecOverlap == Init /\ [][NextOverlap]_vars

(* SpecSnap: snapshot reads, overlapping one another and the scheduled       *)
(* cycles, which run one after the other.  The clock advances by half cache *)
(* lifetimes, a span in which a cycle's statements fit: it advances between  *)
(* cycles, at any point of a read.                                          *)
TickBetweenCycles(t) == (\A c \in Cycles : ~Running(c)) /\ Tick(t)

SnapLists == {<<p>> : p \in {q \in PostPool : q.url = "u1" /\ q.title = "t1"}}
SnapInstants == {k * (CACHE_TTL \div 2) : k \in 1..MaxWait}

NextSnap ==
    \/ StartAlone("cron")
    \/ InitializeDatabase("cron")
    \/ \E ps \in SnapLists, tr \in TrendLists : Gathered("cron", ps, tr, DefaultSentiment)
    \/ SaveStep("cron")
    \/ \E r \in Requests : GetStart(r)
    \/ \E r \in Requests : GetStep(r)
    \/ \E t \in SnapInstants : TickBetweenCycles(t)

SpecSnap == Init /\ [][NextSnap]_vars

(* SpecSentiment: the two handlers, their statements interleaved, on a       *)
(* database whose sentiment history holds the rows of earlier cycles, one   *)
(* per millisecond before the start.                                        *)
HistorySizes == {0, SENTIMENT_KEEP - 1, SENTIMENT_KEEP}
History(n) ==
    {[id |-> i, overall |-> "neutral", score |-> SCORE_HALF, created_at |-> i - n - 1] :
        i \in 1..n}

InitSentiment ==
    /\ clock = 0
    /\ articles = {}
    /\ articleSeq = 1
    /\ trends = <<>>
    /\ \E n \in HistorySizes :
          /\ sentiment = History(n)
          /\ sentimentSeq = n + 1
          /\ urlUnique = (n > 0)
    /\ InitCycles /\ InitReads /\ InitPure /\ InitTrigger /\ NoClient

NextSentiment ==
    \/ \E c \in Cycles : StartHandler(c)
    \/ \E c \in Cycles : InitializeDatabase(c)
    \/ \E c \in Cycles, so \in SentimentPool :
          Gathered(c, <<[url |-> "u1", title |-> "t1"]>>, OneTrend, so)
    \/ \E c \in Cycles : SaveStep(c)
    \/ \E t \in 1..MaxLate : Tick(t)

SpecSentiment == InitSentiment /\ [][NextSentiment]_vars

(* SpecDedup: deduplicatePosts applied to a list of posts, of which some     *)
(* share a url and some have an empty or no url.                            *)
DedupPool ==
    PostPool \cup {[url |-> "", title |-> "t1"], [url |-> Null, title |-> "t1"]}

InitDedup ==
    /\ InitDb /\ InitCycles /\ InitReads /\ InitTrigger /\ NoClient
    /\ text = Undefined
    /\ parsed = <<>>
    /\ posts \in SeqsUpTo(DedupPool, MaxDedup)
    /\ unique = <<>>

CallDeduplicatePosts ==
    /\ unique = <<>>
    /\ unique' = <<deduplicatePosts(posts)>>
    /\ UNCHANGED <<clock, dbVars, cycleVars, firstSaved, readVars, cacheVars, text, parsed, posts,
                   triggerVars, clientVars, fanVars, tagVars>>

NextDedup == CallDeduplicatePosts

SpecDedup == InitDedup /\ [][NextDedup]_vars

(* SpecParse: parseJsonResponse applied to a reply, or to undefined *)
InitParse ==
    /\ InitDb /\ InitCycles /\ InitReads /\ InitTrigger /\ NoClient
    /\ text \in {Undefined} \cup
                {[defined |-> TRUE, toks |-> t] : t \in SeqsUpTo(Tokens, MaxTokens)}
    /\ parsed = <<>>
    /\ posts = <<>>
    /\ unique = <<>>

CallParseJsonResponse ==
    /\ parsed = <<>>
    /\ parsed' = <<parseJsonResponse(text)>>
    /\ UNCHANGED <<clock, dbVars, cycleVars, firstSaved, readVars, cacheVars, text, posts, unique,
                   triggerVars, clientVars, fanVars, tagVars>>

NextParse == CallParseJsonResponse

SpecParse == InitParse /\ [][NextParse]_vars

(* SpecBlocks: parseJsonResponse applied to a reply made of whole blocks,   *)
(* one per line group: a json-fenced block, a bare fenced block or an       *)
(* unfenced chunk, each holding a JSON text or something else.              *)
MaxBlocks == 3
Chunks == {"JSON_TEXT", "JUNK"}
Blocks ==
    {<<"FENCE_JSON", "NL", c, "NL", "FENCE">> : c \in Chunks}
        \cup {<<"FENCE", "NL", c, "NL", "FENCE">> : c \in Chunks}
        \cup {<<c>> : c \in Chunks}

RECURSIVE JoinLines(_)
JoinLines(bs) ==
    IF bs = <<>> THEN <<>>
    ELSE IF Len(bs) = 1 THEN bs[1]
    ELSE bs[1] \o <<"NL">> \o JoinLines(Tail(bs))

InitBlocks ==
    /\ InitDb /\ InitCycles /\ InitReads /\ InitTrigger /\ NoClient
    /\ text \in {[defined |-> TRUE, toks |-> JoinLines(bs)] : bs \in SeqsUpTo(Blocks, MaxBlocks)}
    /\ parsed = <<>>
    /\ posts = <<>>
    /\ unique = <<>>

SpecBlocks == InitBlocks /\ [][NextParse]_vars

(* SpecClient: one page from its mount on.  Home has mounted and its        *)
(* effects have run: the initial fetch is in flight, the auto-refresh       *)
(* interval is set, and the countdown effect returned at once, nextUpdate   *)
(* being null.                                                              *)
InitClient ==
    /\ InitDb /\ InitCycles /\ InitReads /\ InitPure /\ InitTrigger
    /\ mounted = TRUE
    /\ refreshingRef = FALSE
    /\ nextUpdate = <<>>
    /\ effectPending = FALSE
    /\ countdownDue = <<>>
    /\ autoDue = <<AUTO_REFRESH_MS>>
    /\ timeouts = <<>>
    /\ inFlight = [o \in Origins |-> IF o = "initial" THEN 1 ELSE 0]
    /\ fetchCalls = 1
    /\ expiredTicks = 0
    /\ scheduledInWindow = 0

NextClient ==
    \/ CountdownTick
    \/ CountdownEffect
    \/ AutoRefresh
    \/ TimeoutFires
    \/ \E o \in Origins, result \in Settlements : FetchSettles(o, result)
    \/ Unmount
    \/ ClientTimePasses

SpecClient == InitClient /\ [][NextClient]_vars

(* SpecClientLive: the page, its timers firing when they are due, its       *)
(* pending effect running, its requests settling and time passing.  The     *)
(* component may stay mounted for ever.                                     *)
SpecClientLive ==
    /\ InitClient
    /\ [][NextClient]_vars
    /\ WF_vars(CountdownTick)
    /\ WF_vars(CountdownEffect)
    /\ WF_vars(AutoRefresh)
    /\ WF_vars(TimeoutFires)
    /\ WF_vars(\E o \in Origins, result \in Settlements : FetchSettles(o, result))
    /\ WF_vars(ClientTimePasses)

(* SpecWindow: snapshot reads, one at a time, while the scheduled cycles run, *)
(* one after the other, over the retention window.                          *)
WindowLists ==
    {<<[url |-> "u1", title |-> "t1"]>>,
     <<[url |-> "u1", title |-> "t1"], [url |-> "u2", title |-> "t1"]>>}

NextWindow ==
    \/ StartAlone("cron")
    \/ InitializeDatabase("cron")
    \/ \E ps \in WindowLists : Gathered("cron", ps, OneTrend, DefaultSentiment)
    \/ SaveStep("cron")
    \/ GetStart(FirstRequest)
    \/ GetStep(FirstRequest)
    \/ \E t \in RetentionInstants : Tick(t)

SpecWindow == Init /\ [][NextWindow]_vars

(* SpecTrigger: requests to the scheduled trigger, one handled at a time,    *)
(* with CRON_SECRET set or not: authorization, the gather calls with their  *)
(* failures, the analysis, and the save with its failures.                  *)
AnalysisTrends == {<<>>, OneTrend, <<[name |-> Null, score |-> 1]>>}

(* The replies of the entities' calls do not parse; the first general-news  *)
(* call meets any outcome                                                   *)
TriggerOutcomes ==
    {outs \in [Calls -> CallOutcomes] :
        \A k \in Calls : k # <<"general", 1>> => outs[k].kind = "unparseable"}

InitSpecTrigger ==
    /\ InitDb /\ InitCycles /\ InitReads /\ InitPure /\ NoClient
    /\ cronSecret \in Secrets
    /\ InitHandlers /\ NoTag

NextTrigger ==
    \/ \E h \in AuthHeaders : Trigger(h)
    \/ InitializeDatabase("cron")
    \/ \E outs \in TriggerOutcomes : CallsReturn("cron", outs)
    \/ \E tr \in AnalysisTrends : Joined("cron", tr, DefaultSentiment)
    \/ SaveStep("cron")
    \/ InsertTrendRaises("cron")
    \/ StatementFails("cron")

SpecTrigger == InitSpecTrigger /\ [][NextTrigger]_vars

(* SpecGather: cycles of the scheduled trigger, the endpoint open, each     *)
(* gather call meeting any outcome.                                         *)
NextGather ==
    \/ StartAlone("cron")
    \/ InitializeDatabase("cron")
    \/ \E outs \in [Calls -> CallOutcomes] : CallsReturn("cron", outs)
    \/ Joined("cron", OneTrend, DefaultSentiment)
    \/ SaveStep("cron")

SpecGather == Init /\ [][NextGather]_vars

(* SpecTag: one gather call, of an entity or of a general-news group, and   *)
(* a reply whose posts carry the company the model wrote, or none.          *)
LabelPool ==
    {[url |-> "u1", title |-> "t1", company |-> l] :
        l \in {Null, "General", "Tesla", "SpaceX"}}
LabelledOutcomes ==
    {[kind |-> "gateway_error", posts |-> JsUndefined],
     [kind |-> "unparseable", posts |-> JsUndefined],
     [kind |-> "json", posts |-> JsUndefined]}
        \cup {[kind |-> "json", posts |-> JsArray(l)] : l \in SeqsUpTo(LabelPool, MaxPosts)}

InitTag ==
    /\ InitDb /\ InitCycles /\ InitReads /\ InitPure /\ NoClient
    /\ cronSecret = Null
    /\ InitHandlers
    /\ labelled \in [call : Calls, reply : LabelledOutcomes]
    /\ returned = <<>>

GatherCall ==
    /\ returned = <<>>
    /\ returned' = <<PostsOf(labelled.call, labelled.reply)>>
    /\ UNCHANGED <<clock, dbVars, cycleVars, firstSaved, readVars, cacheVars, pureVars,
                   triggerVars, clientVars, fanVars, labelled>>

NextTag == GatherCall

SpecTag == InitTag /\ [][NextTag]_vars

(* SpecSave: cycles of either handler, one after the other, saving lists in  *)
(* which a post has no title, or no url.                                    *)
SavePool ==
    {[url |-> "u1", title |-> "t1"], [url |-> "u1", title |-> Null],
     [url |-> "u2", title |-> "t1"], [url |-> Null, title |-> "t1"]}
SaveLists == SeqsUpTo(SavePool, MaxPosts)

NextSave ==
    \/ \E c \in Cycles : StartAlone(c)
    \/ \E c \in Cycles : InitializeDatabase(c)
    \/ \E c \in Cycles, ps \in SaveLists : Gathered(c, ps, OneTrend, DefaultSentiment)
    \/ \E c \in Cycles : SaveStep(c)

SpecSave == Init /\ [][NextSave]_vars

(* SpecFanout: cycles of either handler, one after the other; the gather    *)
(* calls of the scheduled trigger start and settle one by one, each         *)
(* rejected or giving posts.                                                *)
FanOutcomes ==
    {[kind |-> "gateway_error", posts |-> JsUndefined]}
        \cup {[kind |-> "json", posts |-> JsArray(l)] : l \in GatherLists}

ManualLists == {<<[url |-> "u1", title |-> "t1"]>>}

NextFanout ==
    \/ \E c \in Cycles : StartAlone(c)
    \/ \E c \in Cycles : InitializeDatabase(c)
    \/ \E w \in 1..WAVES : StartWave(w)
    \/ \E k \in Calls, o \in FanOutcomes : CallSettles(k, o)
    \/ FanJoin
    \/ Joined("cron", OneTrend, DefaultSentiment)
    \/ \E ps \in ManualLists : Gathered("radar", ps, OneTrend, DefaultSentiment)
    \/ \E c \in Cycles : SaveStep(c)

SpecFanout == Init /\ [][NextFanout]_vars

(* SpecIngest: requests to both ingestion endpoints, with any authorization *)
(* header, CRON_SECRET set or not, one handler running at a time.           *)
NextIngest ==
    \/ \E h \in AuthHeaders : (\A o \in Cycles : ~Running(o)) /\ Trigger(h)
    \/ \E h \in AuthHeaders : (\A o \in Cycles : ~Running(o)) /\ ManualFetch(h)
    \/ \E c \in Cycles : InitializeDatabase(c)
    \/ \E outs \in TriggerOutcomes : CallsReturn("cron", outs)
    \/ Joined("cron", OneTrend, DefaultSentiment)
    \/ \E ps \in ManualLists : Gathered("radar", ps, OneTrend, DefaultSentiment)
    \/ \E c \in Cycles : SaveStep(c)

SpecIngest == InitSpecTrigger /\ [][NextIngest]_vars

----------------------------------------------------------------------------
(* Steps of a snapshot read, as seen from outside *)

(* A request is issued *)
Issued == readsStarted' = readsStarted + 1

(* Request r returns the response it computed *)
MissStep(r) == rpc[r] = "lastUpdate" /\ rpc'[r] = "idle" /\ response'.status = 200

(* The trends a response carries *)
TrendsIn(resp) == resp.body[1].data.trends

SameBag(s, t) ==
    /\ Len(s) = Len(t)
    /\ \E p \in Orders(Len(s)) : \A i \in 1..Len(s) : s[i] = t[p[i]]

StoredTrends == [i \in 1..Len(trends) |-> TrendOf(trends[i])]

(* A cycle returns having stored its trends argument, each score rounded to *)
(* single precision, and nothing else                                       *)
TrendsReplaced ==
    \A c \in Cycles :
        (pc[c] = "sentTrim" /\ pc'[c] = "done")
            => trends' = [i \in 1..Len(inTrends[c]) |->
                            [name |-> inTrends[c][i].name, score |-> ToReal(inTrends[c][i].score)]]

----------------------------------------------------------------------------
(* Claims about saveRadarData and the articles table *)

(* Handler c takes a step *)
HandlerStep(c) == <<pc[c], idx[c]>> # <<pc'[c], idx'[c]>>
SavePcs == {"cleanup", "upsert", "trendsDelete", "trendsInsert", "sentInsert", "sentTrim"}
AfterUpserts == {"trendsDelete", "trendsInsert", "sentInsert", "sentTrim"}

(* C1. Retention invariant: when a saveRadarData call returns, every row of *)
(* articles has created_at no earlier than the cutoff that call's           *)
(* cleanupOldArticles computed (48 hours before its Date.now()).            *)
C1_RetentionAfterSave ==
    [][\A c \in Cycles :
          (pc[c] = "sentTrim" /\ pc'[c] = "done")
              => \A r \in articles' : r.created_at >= cutoffTime[c]]_vars

(* A call about to return whose cleanup deleted a row, other rows remaining *)
C1_Witness ==
    \E c \in Cycles : pc[c] = "sentTrim" /\ cleaned[c] # {} /\ articles # {}

(* C2. URL uniqueness: the articles table never holds two rows of one url,  *)
(* whatever the interleaving of two cycles' statements and whether or not   *)
(* an input list repeats a url.                                             *)
C2_UrlUnique ==
    \A r1 \in articles, r2 \in articles : r1.url = r2.url => r1 = r2

(* Both handlers are in their upsert loops, about to save the url of a      *)
(* stored row, the manual one at the second post of a list repeating a url  *)
C2_Witness ==
    /\ pc["cron"] = "upsert" /\ pc["radar"] = "upsert"
    /\ idx["radar"] = 2
    /\ inArticles["radar"][1].url = inArticles["radar"][2].url
    /\ inArticles["cron"][idx["cron"]].url = inArticles["radar"][2].url
    /\ \E r \in articles : r.url = inArticles["radar"][2].url

(* C3 as stated. Upsert idempotence: a stored row of a url always has the   *)
(* id and created_at assigned when that url was first inserted, whichever   *)
(* later cycle saved the url again.                                         *)
C3_FirstInsertionKept ==
    \A r \in articles :
        firstSaved[r.url] = <<[id |-> r.id, created_at |-> r.created_at]>>

(* C3 amended. An upsert that succeeds on a url that has a row leaves       *)
(* exactly one row for the url, with the fields of this save and the id and *)
(* created_at the row had; and a stored row differs in id or created_at     *)
(* from the url's first insertion only if it was created more than the      *)
(* retention window after it (the first row expired and was purged).        *)
C3_UpsertInPlace ==
    /\ [](\A r \in articles :
            LET f == firstSaved[r.url][1]
            IN  \/ r.id = f.id /\ r.created_at = f.created_at
                \/ r.created_at > f.created_at + RetentionMs)
    /\ [][\A c \in Cycles :
            (/\ HandlerStep(c)
             /\ pc[c] = "upsert"
             /\ newArticlesCount'[c] = newArticlesCount[c] + 1)
            => LET a == inArticles[c][idx[c]]
               IN  /\ Cardinality({r \in articles' : r.url = a.url}) = 1
                   /\ \A r \in articles' : r.url = a.url => r.title = a.title
                   /\ \A r \in articles :
                        r.url = a.url => [r EXCEPT !.title = a.title] \in articles']_vars

(* A second cycle is about to save, with another title, a url whose row an  *)
(* earlier cycle inserted                                                   *)
C3_Witness ==
    \E c \in Cycles :
        /\ pc[c] = "upsert"
        /\ cyclesStarted = 2
        /\ idx[c] = 1
        /\ \E r \in articles :
              /\ r.url = inArticles[c][1].url
              /\ r.title # inArticles[c][1].title
              /\ r.created_at < clock

(* C4 as stated. No resurrection: when a call's upserts are over, no url    *)
(* whose expired row the call's cleanup deleted, and which is in the call's *)
(* input list, has a row.                                                   *)
C4_NoResurrection ==
    \A c \in Cycles :
        pc[c] \in AfterUpserts =>
            \A g \in cleaned[c] :
                g.url \in UrlsOf(inArticles[c]) => ~ \E r \in articles : r.url = g.url

(* C4 amended. When a call's upserts are over, every row its cleanup        *)
(* deleted is gone and was older than the retention window; and a url of    *)
(* such a row that is in the input list, its upsert succeeding, has a row   *)
(* again: a new one, with a later id and a created_at no earlier than the   *)
(* start of the call.                                                       *)
C4_PurgedThenReinserted ==
    \A c \in Cycles :
        pc[c] \in AfterUpserts =>
            \A g \in cleaned[c] :
                /\ g \notin articles
                /\ g.created_at + RetentionMs < clock
                /\ (\E i \in 1..Len(inArticles[c]) :
                        /\ inArticles[c][i].url = g.url
                        /\ ~InsertRaises(inArticles[c][i], urlUnique))
                   => \E r \in articles :
                        /\ r.url = g.url
                        /\ r.id > g.id
                        /\ r.created_at >= cutoffTime[c] + RetentionMs

(* The cleanup of a call deleted the expired row of a url the call saves    *)
C4_Witness ==
    \E c \in Cycles :
        /\ pc[c] = "sentTrim"
        /\ \E g \in cleaned[c] : g.url \in UrlsOf(inArticles[c])

(* C5. Save keeps unrelated articles: no step of a saveRadarData call       *)
(* removes or changes a row whose url is not in the call's input list and   *)
(* whose created_at is within the retention window at that step.            *)
C5_SaveKeepsUnrelated ==
    [][\A c \in Cycles :
          (HandlerStep(c) /\ pc[c] \in SavePcs)
              => \A r \in articles :
                    (r.created_at >= clock - RetentionMs /\ r.url \notin UrlsOf(inArticles[c]))
                        => r \in articles']_vars

(* A call about to return that saved an article, beside a stored row of     *)
(* another url that is exactly the retention window old                     *)
C5_Witness ==
    \E c \in Cycles :
        /\ pc[c] = "sentTrim"
        /\ newArticlesCount[c] > 0
        /\ \E r \in articles :
              r.url \notin UrlsOf(inArticles[c]) /\ r.created_at = cutoffTime[c]

(* C7. Sentiment history cap: a saveRadarData call adds one row to          *)
(* sentiment_overview, at its INSERT and nowhere else; when the call        *)
(* returns the table holds at most SENTIMENT_KEEP rows, exactly that many   *)
(* if it held as many or more before the trim, and no row the trim removed  *)
(* is more recent than a row it kept.                                       *)
C7_SentimentCap ==
    [][\A c \in Cycles :
          /\ (pc[c] = "sentInsert" /\ pc'[c] = "sentTrim")
                => /\ sentiment \subseteq sentiment'
                   /\ Cardinality(sentiment') = Cardinality(sentiment) + 1
          /\ (HandlerStep(c) /\ pc[c] # "sentInsert")
                => sentiment' \subseteq sentiment
          /\ (pc[c] = "sentTrim" /\ pc'[c] = "done")
                => /\ Cardinality(sentiment') <= SENTIMENT_KEEP
                   /\ Cardinality(sentiment) >= SENTIMENT_KEEP
                        => Cardinality(sentiment') = SENTIMENT_KEEP
                   /\ \A k \in sentiment', d \in sentiment \ sentiment' :
                        k.created_at >= d.created_at]_vars

(* A call has returned after trimming: more rows were ever inserted than    *)
(* the table keeps                                                          *)
C7_Witness ==
    /\ \E c \in Cycles : pc[c] = "done"
    /\ \A c \in Cycles : pc[c] \in {"idle", "done"}
    /\ sentimentSeq - 1 > SENTIMENT_KEEP
    /\ Cardinality(sentiment) = SENTIMENT_KEEP

----------------------------------------------------------------------------
(* Claims about the pure functions of the cron route *)

(* The positions of a list at which a non-empty url occurs for the first    *)
(* time                                                                     *)
FirstOccurrences(ps) ==
    {i \in 1..Len(ps) :
        /\ ps[i].url # Null
        /\ ps[i].url # ""
        /\ \A j \in 1..(i - 1) : ps[j].url # ps[i].url}

(* C8. Dedup property: deduplicatePosts returns the entries at the first    *)
(* occurrences of the distinct non-empty urls, with their fields, in input  *)
(* order: one entry per such url, and no entry of a null or empty url.      *)
C8_DedupFirstOccurrences ==
    unique # <<>> =>
        LET out == unique[1]
            at  == FirstOccurrences(posts)
        IN  /\ Len(out) = Cardinality(at)
            /\ \E f \in [1..Len(out) -> at] :
                  /\ \A k \in 1..Len(out), l \in 1..Len(out) : k < l => f[k] < f[l]
                  /\ \A k \in 1..Len(out) : out[k] = posts[f[k]]
            /\ \A k \in 1..Len(out), l \in 1..Len(out) : out[k].url = out[l].url => k = l
            /\ \A k \in 1..Len(out) : out[k].url # Null /\ out[k].url # ""
            /\ \A i \in 1..Len(posts) :
                  (posts[i].url # Null /\ posts[i].url # "")
                      => \E k \in 1..Len(out) : out[k].url = posts[i].url

(* deduplicatePosts has returned one entry, of a list that repeats a url    *)
(* with other fields and holds an entry of empty or no url                  *)
C8_Witness ==
    /\ unique # <<>>
    /\ \E k \in 1..Len(posts) : posts[k].url \in {"", Null}
    /\ \E i \in 1..Len(posts), j \in 1..Len(posts) :
          i < j /\ posts[i].url = posts[j].url /\ posts[i] # posts[j] /\ posts[i].url = "u1"
    /\ Len(unique[1]) = 1

(* A reply of which neither the whole, nor the inside of any fenced block,  *)
(* is a JSON text                                                           *)
IsJson(toks) == SelectSeq(toks, LAMBDA t : t # "NL") = <<"JSON_TEXT">>

NoCandidateParses(toks) ==
    /\ ~IsJson(toks)
    /\ \A i \in 1..Len(toks), j \in 1..Len(toks) :
          (/\ toks[i] \in {"FENCE_JSON", "FENCE"}
           /\ i + 2 <= j /\ j < Len(toks)
           /\ toks[i + 1] = "NL" /\ toks[j] = "NL"
           /\ toks[j + 1] \in {"FENCE_JSON", "FENCE"})
              => ~IsJson(SubSeq(toks, i + 2, j - 1))

(* C9. Parser default: parseJsonResponse does not throw; of undefined, of   *)
(* the empty string and of a reply in which no candidate is a JSON text it  *)
(* returns the canonical default.                                           *)
C9_ParserDefault ==
    parsed # <<>> =>
        /\ ~parsed[1].threw
        /\ (~text.defined \/ text.toks = <<>> \/ NoCandidateParses(text.toks))
              => parsed[1].value =
                    [posts |-> <<>>, trends |-> <<>>,
                     sentiment_overview |-> [overall |-> "neutral", score |-> SCORE_HALF]]

(* parseJsonResponse has returned, of a reply whose json block holds no     *)
(* JSON text                                                                *)
C9_Witness ==
    /\ parsed # <<>>
    /\ text.defined
    /\ text.toks = <<"FENCE_JSON", "NL", "JUNK", "NL", "FENCE">>
    /\ parsed[1].value = DefaultParsed

----------------------------------------------------------------------------
(* Claims about the snapshot read *)

(* C6 as stated. Trend replace: ingestion cycles running one after the      *)
(* other, a cycle returns with the trends table holding its trend set, and  *)
(* a snapshot read issued after the second cycle returned, no cycle running *)
(* since, returns exactly the trends the table holds.                       *)
C6_ReadReturnsLatestTrends ==
    [][/\ TrendsReplaced
       /\ (Issued /\ rpc' = rpc /\ QuietCycles >= 2)
              => SameBag(TrendsIn(response'), StoredTrends)
       /\ \A r \in Requests :
            (MissStep(r) /\ quietSince[r] >= 2 /\ quietSince[r] = QuietCycles)
                => SameBag(TrendsIn(response'), StoredTrends)]_vars

(* C6 amended. A cycle returns with the trends table holding its trend set, *)
(* scores rounded to single precision; a snapshot read issued after the     *)
(* second cycle returned, no cycle running since, that finds no valid       *)
(* cached response returns the table's trends by descending score.          *)
C6_RecomputedReadReturnsLatestTrends ==
    [][/\ TrendsReplaced
       /\ \A r \in Requests :
            (MissStep(r) /\ quietSince[r] >= 2 /\ quietSince[r] = QuietCycles)
                => /\ TrendsIn(response') \in ByScoreDesc(StoredTrends)
                   /\ ~response'.cached]_vars

(* A read issued after the second cycle is about to return trends that      *)
(* differ from those cached by a read of the first cycle's                  *)
C6_Witness ==
    \E r \in Requests :
        /\ rpc[r] = "lastUpdate"
        /\ quietSince[r] >= 2
        /\ quietSince[r] = QuietCycles
        /\ Len(data[r].trends) = 2
        /\ cachedResponse # <<>>
        /\ Len(cachedResponse[1].data.trends) = 1

----------------------------------------------------------------------------
(* Claims about what a snapshot read observes of the articles table *)

(* Request r runs getRadarData's query on articles *)
ReadsArticles(r) == rpc[r] = "articles" /\ rpc'[r] = "trends"

(* C11. Read window: every post that getRadarData reads for a response of   *)
(* GET /api/articles is the post of a row created at most 48 hours before   *)
(* the request's Date.now().                                                *)
C11_ReadWindow ==
    [][\A r \in Requests :
          ReadsArticles(r)
              => \A i \in 1..Len(data'[r].posts) :
                    \A row \in articles :
                        row.url = data'[r].posts[i].url
                            => row.created_at + RetentionMs >= now[r]]_vars

(* A saveRadarData call has applied part of its deletions and upserts: it   *)
(* deleted a row or saved an article, and an article is still to be saved   *)
PartlySaved(c) ==
    /\ pc[c] = "upsert"
    /\ cleaned[c] # {} \/ newArticlesCount[c] > 0

(* C19. Atomic save: no snapshot read runs its query on articles while a    *)
(* saveRadarData call has applied only part of its deletions and upserts.   *)
C19_AtomicSave ==
    [][\A r \in Requests :
          ReadsArticles(r) => \A c \in Cycles : ~PartlySaved(c)]_vars

----------------------------------------------------------------------------
(* Claims about the scheduled trigger *)

(* C16. Trigger authorization: with CRON_SECRET set, a request whose        *)
(* authorization header is not exactly "Bearer " followed by the secret is  *)
(* answered 401 and nothing else happens: no handler state, no table and no *)
(* gather call changes.  With CRON_SECRET not set, or with the right        *)
(* header, the request enters the handler.                                  *)
C16_Authorization ==
    [][\A h \in AuthHeaders :
          Trigger(h) =>
              IF ~Falsy(cronSecret) /\ h # Bearer(cronSecret)
              THEN /\ reply'["cron"].status = 401
                   /\ UNCHANGED <<dbVars, cycleVars, outcomes, lastGood>>
              ELSE /\ pc'["cron"] = "initdb"
                   /\ reply'["cron"].status # 401]_vars

(* A request was rejected while the secret is set *)
C16_Witness == ~Falsy(cronSecret) /\ reply["cron"].status = 401

(* A gather call failed: generateText rejected, or the reply did not parse *)
CallFailed(o) == o.kind \in {"gateway_error", "unparseable"}

(* The posts of the calls that did not fail, in the order of the calls *)
RECURSIVE SucceededFrom(_, _)
SucceededFrom(outs, i) ==
    IF i > Len(CallOrder) THEN <<>>
    ELSE (IF CallFailed(outs[CallOrder[i]]) THEN <<>> ELSE outs[CallOrder[i]].posts.items)
            \o SucceededFrom(outs, i + 1)

(* Every reply that parsed has an array, or nothing, as its posts member *)
WellShaped(outs) == \A k \in Calls : outs[k].posts.type # "number"

(* C17. Per-call failure isolation: whichever gather calls fail, the        *)
(* replies that parse being well shaped, the handler goes on from the join  *)
(* to saveRadarData, and the list it saves is deduplicatePosts of the posts *)
(* of the calls that did not fail, in the order of the calls.               *)
C17_FailureIsolation ==
    [][\A c \in Cycles :
          (/\ pc[c] = "gather"
           /\ outcomes[c] # <<>>
           /\ HandlerStep(c)
           /\ WellShaped(outcomes[c][1]))
          => /\ pc'[c] = "cleanup"
             /\ inArticles'[c] = deduplicatePosts(SucceededFrom(outcomes[c][1], 1))]_vars

(* saveRadarData has been called with posts, after a cycle in which one     *)
(* call was rejected, one reply did not parse and one call gave posts       *)
C17_Witness ==
    /\ pc["cron"] = "cleanup"
    /\ outcomes["cron"] # <<>>
    /\ inArticles["cron"] # <<>>
    /\ \E k1 \in Calls, k2 \in Calls :
          /\ outcomes["cron"][1][k1].kind = "gateway_error"
          /\ outcomes["cron"][1][k2].kind = "unparseable"

(* C18. Graceful staleness: whenever a cycle has ended with an error        *)
(* response, the articles, trends and sentiment_overview tables are as the  *)
(* last cycle that answered success left them.                              *)
C18_GracefulStaleness ==
    \A c \in Cycles :
        reply[c].status = 500 => <<articles, trends, sentiment>> = lastGood

(* The awaits of saveRadarData outside the per-article try block *)
SaveUnguarded == {"cleanup", "trendsDelete", "trendsInsert", "sentInsert", "sentTrim"}

(* C20. Unguarded save failure propagates: once an await of the handler's   *)
(* run has rejected outside the inner try blocks, the run is over, no       *)
(* further statement of it runs, and the handler has answered status 500    *)
(* with { error } carrying that failure.                                    *)
C20_SaveFailurePropagates ==
    \A c \in Cycles :
        raised[c] # <<>> => pc[c] = "done" /\ reply[c] = Response(500, raised[c])

(* A statement of saveRadarData failed after articles had been saved *)
C20_Witness ==
    \E c \in Cycles :
        /\ raised[c] # <<>>
        /\ raised[c][1] \in SaveUnguarded \ {"cleanup"}
        /\ articles # {}

----------------------------------------------------------------------------
(* Claims about the page's refresh guard *)

(* The re-fetches the countdown scheduled that have not settled: their      *)
(* timer is pending or their request is in flight                           *)
Outstanding == Len(timeouts) + inFlight["deferred"]

RequestsInFlight == inFlight["initial"] + inFlight["auto"] + inFlight["deferred"]

(* C12. Client guard scenario: while no fetch settles, however many times   *)
(* updateCountdown finds the deadline passed (twice or more), setTimeout    *)
(* has been called exactly once.                                            *)
C12_OneScheduledPerWindow ==
    expiredTicks >= 2 => scheduledInWindow = 1

(* updateCountdown has found the deadline passed twice since a fetch last   *)
(* settled, and the re-fetch then scheduled is still pending                *)
C12_Witness ==
    /\ expiredTicks = 2
    /\ Len(timeouts) = 1
    /\ refreshingRef

(* C13. Suppression until the scheduled fetch settles: at most one          *)
(* countdown-scheduled re-fetch is outstanding, and refreshingRef goes from *)
(* set to clear only in a step in which a countdown-scheduled request       *)
(* settles.                                                                 *)
C13_OneOutstanding ==
    /\ [](Outstanding <= 1)
    /\ [][(refreshingRef /\ ~refreshingRef')
            => inFlight'["deferred"] < inFlight["deferred"]]_vars

(* C14. One guard for both triggers: the auto-refresh interval starts no    *)
(* request while refreshingRef is set, and at most one request of           *)
(* fetchArticles is in flight.                                              *)
C14_SharedGuard ==
    /\ [](RequestsInFlight <= 1)
    /\ [][inFlight'["auto"] > inFlight["auto"] => ~refreshingRef]_vars

(* C15. Teardown cancels pending timers: once the component is unmounted no *)
(* timer it started is pending, neither interval nor deferred timeout.      *)
C15_TeardownCancelsTimers ==
    ~mounted => countdownDue = <<>> /\ autoDue = <<>> /\ timeouts = <<>>

----------------------------------------------------------------------------
(* Claims about the order of a cycle's steps *)

(* Gather call k is started *)
Starts(k) == callState[k] = "idle" /\ callState'[k] = "flight"

AllSettled == \A k \in Calls : callState[k] = "settled"

(* analyzeTrendsAndSentiment is called; saveRadarData is called *)
AnalysisStarts == outcomes["cron"] = <<>> /\ outcomes'["cron"] # <<>>
SaveStarts(c) == pc[c] = "gather" /\ pc'[c] = "cleanup"

(* C21. Full fan-out: no gather call of a cycle is started after another    *)
(* gather call of that cycle has settled.                                   *)
C21_FullFanOut ==
    [][\A k \in Calls : Starts(k) => \A j \in Calls : callState[j] # "settled"]_vars

(* C22 as stated. Gather-then-write ordering: nothing in the database       *)
(* changes but by a statement of saveRadarData; the analysis call starts    *)
(* only when every gather call has settled; the save starts only after the  *)
(* analysis.                                                                *)
C22_GatherThenWrite ==
    [][/\ dbVars' # dbVars => \E c \in Cycles : pc[c] \in SavePcs
       /\ AnalysisStarts => AllSettled
       /\ SaveStarts("cron") => AllSettled /\ outcomes["cron"] # <<>>]_vars

(* C22 amended. No row of articles, trends or sentiment_overview is         *)
(* inserted, updated or deleted but by a statement of saveRadarData, and    *)
(* what changes in the database before is the schema, by                    *)
(* initializeDatabase, the handler's first step; the analysis call starts   *)
(* only when every gather call has settled; the save starts only after the  *)
(* analysis.                                                                *)
C22_RowsAfterAnalysis ==
    [][/\ <<articles, trends, sentiment>>' # <<articles, trends, sentiment>>
            => \E c \in Cycles : pc[c] \in SavePcs
       /\ (dbVars' # dbVars /\ \A c \in Cycles : pc[c] \notin SavePcs)
            => \E c \in Cycles : pc[c] = "initdb" /\ pc'[c] = "gather"
       /\ AnalysisStarts => AllSettled
       /\ SaveStarts("cron") => AllSettled /\ outcomes["cron"] # <<>>]_vars

(* The scheduled trigger's save has written articles, every gather call     *)
(* and the analysis having settled, on the schema its first step set up     *)
C22_Witness ==
    /\ pc["cron"] = "trendsDelete"
    /\ newArticlesCount["cron"] > 0
    /\ AllSettled
    /\ urlUnique

(* C27. Order determinism under fan-out: the list a cycle saves is          *)
(* deduplicatePosts of the posts of the calls that did not fail, taken in   *)
(* the order of the calls: a function of the replies alone, whatever the    *)
(* order in which the calls settled.                                        *)
C27_OrderDeterminism ==
    [][SaveStarts("cron")
          => inArticles'["cron"] = deduplicatePosts(SucceededFrom(callReply, 1))]_vars

(* saveRadarData has been called in a cycle whose second general-news call  *)
(* settled before the first, both giving a post of one url, with different  *)
(* titles                                                                   *)
C27_Witness ==
    /\ pc["cron"] = "cleanup"
    /\ \E i \in 1..Len(completion), j \in 1..Len(completion) :
          i < j /\ completion[i] = <<"general", 2>> /\ completion[j] = <<"general", 1>>
    /\ callReply[<<"general", 1>>].posts = JsArray(<<[url |-> "u1", title |-> "t1"]>>)
    /\ callReply[<<"general", 2>>].posts.type = "array"
    /\ Len(callReply[<<"general", 2>>].posts.items) = 2
    /\ \E i \in 1..Len(inArticles["cron"]) :
          inArticles["cron"][i] = [url |-> "u1", title |-> "t1"]

----------------------------------------------------------------------------
(* Claims about the save of a list in which an article cannot be stored *)

(* The articles of saveRadarData's argument whose INSERT does not raise *)
Stored(c) == {i \in 1..Len(inArticles[c]) : ~InsertRaises(inArticles[c][i], urlUnique)}

(* C23. Per-article failure: a turn of the loop over articles counts its    *)
(* article if and only if the upsert succeeded, and goes on to the next     *)
(* article, or to the trend step after the last, whether it succeeded or    *)
(* not; when saveRadarData returns, having run the trend and sentiment      *)
(* steps, newArticlesCount is the number of articles whose upsert           *)
(* succeeded.                                                               *)
C23_PerArticleFailure ==
    [][\A c \in Cycles :
          /\ (pc[c] = "upsert" /\ HandlerStep(c))
                => /\ newArticlesCount'[c] =
                        newArticlesCount[c] + (IF idx[c] \in Stored(c) THEN 1 ELSE 0)
                   /\ idx[c] \notin Stored(c) => articles' = articles
                   /\ IF idx[c] < Len(inArticles[c])
                      THEN pc'[c] = "upsert" /\ idx'[c] = idx[c] + 1
                      ELSE pc'[c] = "trendsDelete"
          /\ (pc[c] = "sentTrim" /\ pc'[c] = "done")
                => newArticlesCount[c] = Cardinality(Stored(c))]_vars

(* A call about to return that went on after its first article failed and   *)
(* stored the second                                                        *)
C23_Witness ==
    \E c \in Cycles :
        /\ pc[c] = "sentTrim"
        /\ Len(inArticles[c]) = 2
        /\ Stored(c) = {2}
        /\ newArticlesCount[c] = 1
        /\ trends # <<>>

----------------------------------------------------------------------------
(* Claims about the company a collected post carries *)

(* The posts of the model's reply *)
Given(o) == IF o.kind = "json" /\ o.posts.type = "array" THEN o.posts.items ELSE <<>>

(* C24. Company tagging: a post collected from an entity's call carries     *)
(* that entity's configured name whatever the model wrote; a post collected *)
(* from a general-news call carries the company the model wrote, or         *)
(* "General" when it wrote none.                                            *)
C24_CompanyTagging ==
    returned # <<>> =>
        LET given == Given(labelled.reply)
        IN  /\ Len(returned[1]) = Len(given)
            /\ \A i \in 1..Len(given) :
                  returned[1][i].company =
                      IF labelled.call[1] # "general" THEN COMPANY_NAMES[labelled.call[2]]
                      ELSE IF given[i].company = Null THEN "General"
                      ELSE given[i].company

----------------------------------------------------------------------------
(* Claims about the parser's candidates *)

(* The candidates of a reply in the order json-fenced block, bare fenced    *)
(* block, whole string; and the parse of the first of them that parses      *)
CandidatesInOrder(toks) ==
    Match(toks, "FENCE_JSON") \o Match(toks, "FENCE") \o <<toks>>

RECURSIVE FirstParsing(_, _)
FirstParsing(cands, i) ==
    IF i > Len(cands) THEN DefaultParsed
    ELSE IF IsJson(cands[i]) THEN ReplyValue
    ELSE FirstParsing(cands, i + 1)

(* C25. Parser candidate order: parseJsonResponse returns the parse of the  *)
(* first of the json-fenced block, the bare fenced block and the whole      *)
(* string, in that order, that parses as JSON; a valid bare block is        *)
(* returned when the json-fenced block is invalid.                          *)
C25_CandidateOrder ==
    (parsed # <<>> /\ text.defined) =>
        parsed[1].value = FirstParsing(CandidatesInOrder(text.toks), 1)

----------------------------------------------------------------------------
(* Claims about the page catching up *)

(* The page holds a nextUpdate that has passed *)
Overdue == mounted /\ nextUpdate # <<>> /\ nextUpdate[1] <= clock

(* C26. Catch-up liveness: timers firing and fetches settling, from a state *)
(* before the end of the modelled time in which the mounted page holds a    *)
(* nextUpdate not later than the current time, fetchArticles is eventually  *)
(* called, unless the page is unmounted first; and refreshingRef is never   *)
(* set in a state with no deferred timer pending and no fetch in flight.    *)
C26_CatchUp ==
    /\ [](refreshingRef => timeouts # <<>> \/ RequestsInFlight > 0)
    /\ \A n \in {0, 1} :
          [](Overdue /\ clock < AUTO_REFRESH_MS /\ fetchCalls = n
                => <>(fetchCalls # n \/ ~mounted))

(* The page holds a nextUpdate that has passed, refreshingRef is set and    *)
(* the deferred timer is pending, no request being in flight                *)
C26_Witness ==
    /\ Overdue
    /\ clock < AUTO_REFRESH_MS
    /\ refreshingRef
    /\ timeouts # <<>>
    /\ RequestsInFlight = 0

----------------------------------------------------------------------------
(* Claims about concurrent snapshot reads *)

(* C28. Cache never regresses: snapshot reads overlapping one another, the  *)
(* cache slot is never overwritten by the response of a read issued earlier *)
(* than the one whose response it holds: cacheTimestamp, the Date.now() of  *)
(* the read that filled the slot, never decreases.                          *)
C28_CacheNeverRegresses ==
    [][cacheTimestamp' >= cacheTimestamp]_vars

----------------------------------------------------------------------------
(* Claims about who may start an ingestion *)

(* A request with authorization header h arrives at an ingestion endpoint *)
IngestRequest(h) == Trigger(h) \/ ManualFetch(h)

(* C29. No unauthenticated ingestion: with CRON_SECRET set, a request to    *)
(* the scheduled trigger or to POST /api/radar whose authorization header   *)
(* is not "Bearer " followed by the secret starts no handler, so that it    *)
(* causes no call of the Model Gateway and no write to the tables.          *)
C29_NoUnauthenticatedIngestion ==
    [][\A h \in AuthHeaders :
          (IngestRequest(h) /\ ~Falsy(cronSecret) /\ h # Bearer(cronSecret))
              => UNCHANGED <<pc, dbVars>>]_vars

----------------------------------------------------------------------------
(* Claims about the snapshot's lastUpdate *)

(* C30. lastUpdate tracks cycles: a snapshot read that is issued after a    *)
(* cycle answered success, no cycle running since, and that computes its    *)
(* response, reports a lastUpdate not earlier than the instant at which     *)
(* that cycle's saveRadarData began, and nextUpdate NextUpdateMs later.     *)
C30_LastUpdateTracksCycles ==
    [][\A r \in Requests :
          (/\ MissStep(r)
           /\ savedAt # <<>>
           /\ quietSince[r] >= 1
           /\ quietSince[r] = QuietCycles)
              => LET body == response'.body[1]
                 IN  /\ body.lastUpdate # <<>>
                     /\ body.lastUpdate[1] >= savedAt[1]
                     /\ body.nextUpdate = <<body.lastUpdate[1] + NextUpdateMs>>]_vars

====
